---- MODULE Spec2Model ----
(***************************************************************************)
(* Verification model of futurediffusion/books:                            *)
(*   src/kdpsimplescraper.py  Gutenberg/Wikisource HTML -> clean TXT       *)
(*   src/kdp1.py              KDP Book Cleaner                             *)
(*                                                                         *)
(* A text is a sequence of tokens.  A token is either one whitespace       *)
(* character ("\n", " ", "\t", "\r", "\f", "vt" for U+000B, "nbsp" for     *)
(* U+00A0) or a string without whitespace (a word).  The code's            *)
(* whitespace operations act on the whitespace tokens only.                *)
(* For repair_mojibake a string is a sequence of code points (integers).   *)
(***************************************************************************)
EXTENDS Integers, Sequences, FiniteSets, TLC

VARIABLES
    comp,       \* which part of the program the behaviour exercises
    rs,         \* repair_mojibake: the argument s
    r1,         \* repair_mojibake(s)
    r2,         \* repair_mojibake(repair_mojibake(s))
    rpc,        \* "in" | "once" | "twice"
    opt,        \* extract_clean_text: the ExtractOptions
    blocks,     \* extract_clean_text: the list blocks, each with the branch that added it
    ntop,       \* number of top-level elements of the container walked so far
    lastEl,        \* the top-level element walked last
    base,       \* len(blocks) before lastEl was walked
    out,        \* the text extract_clean_text returned
    xpc,        \* "walk" | "done"
    raw,        \* BookCleaner.clean_text: the argument text
    aggr,       \* BookCleaner.clean_text: the argument aggressive
    cleanedOut,    \* the text BookCleaner.clean_text returned
    cpc,        \* "raw" | "cleaned"
    site,       \* the pages the Wikisource site serves
    url_edit,   \* scraper MainWindow: the text of the URL field
    _last_text, \* scraper MainWindow._last_text ("" and None are <<>>)
    preview,    \* the text of the preview widget
    status,     \* the text of the status label
    busy,       \* the buttons are disabled (_set_busy)
    save_enabled,  \* btn_save is enabled
    kpc,        \* _collect_wikisource_chapters: "idle" | "index" | "first" | "sub"
    first_level,   \* the list first_level
    fi,         \* position of the loop of line 438 in first_level
    sublinks,   \* the list sublinks of the volume page being expanded
    si,         \* position of the loop of line 447 in sublinks
    seen,       \* the set seen of line 436
    chapters,   \* the list chapters, each (title, url, body)
    fetched,    \* the calls of fetch_url_bytes of the run, in order
    failedUrl,  \* the URL whose fetch raised
    pending_close,     \* the user has asked to close the window and the event waits in the queue
    held,       \* _last_text and preview when the handler running last began
    result,     \* how the handler running last ended
    runs,       \* handlers started so far
    _last_structure,   \* kdp1 MainWindow._last_structure: <<>> for None, else <<the dict>>
    structure_info,    \* the text of the structure box
    chapters_list,     \* the items of the chapter list
    saved,      \* the text _auto_save wrote last
    btn_process,       \* btn_process is enabled
    btn_copy,   \* btn_copy is enabled
    wpc,        \* ProcessWorker.run: "none" | "started" | "fetched" | "ended"
    aggressive_check,  \* the aggressive flag the worker was created with
    wraw,       \* the text the worker extracted
    signals,    \* the worker's signals queued for the window's thread
    cleared,    \* on_clear ran since the last on_process
    page_hrefs, \* extract_wikisource_chapter_links: the href of each anchor of the page
    page_url,   \* extract_wikisource_chapter_links: the argument base_url
    found_links,       \* the list extract_wikisource_chapter_links returned
    lpc,        \* "page" | "extracted"
    dlines,     \* detect_structure: the list lines
    dk,         \* lines the loop of line 166 has taken
    dstructure, \* detect_structure: the dict structure
    dpc         \* "head" | "done"

repairVars == <<rs, r1, r2, rpc>>
extractVars == <<opt, blocks, ntop, lastEl, base, out, xpc>>
cleanVars == <<raw, aggr, cleanedOut, cpc>>
\* the fields the two windows have in common
windowVars == <<url_edit, _last_text, preview, status, held, result, runs>>
crawlVars ==
    <<site, busy, save_enabled, kpc, first_level, fi, sublinks, si, seen, chapters, fetched,
      failedUrl, pending_close>>
kdpVars ==
    <<_last_structure, structure_info, chapters_list, saved, btn_process, btn_copy, wpc,
      aggressive_check, wraw, signals, cleared>>

linkVars == <<page_hrefs, page_url, found_links, lpc>>
detectVars == <<dlines, dk, dstructure, dpc>>

vars ==
    <<comp, repairVars, extractVars, cleanVars, windowVars, crawlVars, kdpVars, linkVars,
      detectVars>>

\* what the actions of one part leave alone
notRepair ==
    <<comp, extractVars, cleanVars, windowVars, crawlVars, kdpVars, linkVars, detectVars>>
notExtract ==
    <<comp, repairVars, cleanVars, windowVars, crawlVars, kdpVars, linkVars, detectVars>>
notClean ==
    <<comp, repairVars, extractVars, windowVars, crawlVars, kdpVars, linkVars, detectVars>>
notScraper == <<comp, repairVars, extractVars, cleanVars, kdpVars, linkVars, detectVars>>
notKdp == <<comp, repairVars, extractVars, cleanVars, crawlVars, linkVars, detectVars>>
notLinks ==
    <<comp, repairVars, extractVars, cleanVars, windowVars, crawlVars, kdpVars, detectVars>>
notDetect ==
    <<comp, repairVars, extractVars, cleanVars, windowVars, crawlVars, kdpVars, linkVars>>

(***************************************************************************)
(* Bounds of the model                                                     *)
(***************************************************************************)
MaxStrLen == 4      \* longest argument of repair_mojibake
MaxTop == 1         \* top-level elements of the container extract_clean_text walks
MaxKids == 3        \* children of a generated block element
MaxRawLen == 5      \* characters of a generated argument of clean_text
MaxLines == 3        \* lines of an argument of clean_text made of whole lines
MaxSub == 6         \* most chapter links of the first volume page
MaxRuns == 2        \* handlers of a window started in one behaviour
MaxAnchors == 2     \* anchors of a generated page after its first one
MaxDetectLines == 3    \* lines of a generated argument of detect_structure

(***************************************************************************)
(* Generic sequence helpers                                                *)
(***************************************************************************)
RECURSIVE SeqsUpTo(_, _)
SeqsUpTo(S, n) ==
    IF n = 0 THEN {<<>>}
    ELSE LET shorter == SeqsUpTo(S, n - 1)
         IN  shorter \cup {Append(s, x) : s \in {t \in shorter : Len(t) = n - 1}, x \in S}

Range(s) == {s[k] : k \in 1..Len(s)}

(***************************************************************************)
(* repair_mojibake  (src/kdpsimplescraper.py:43-55)                        *)
(***************************************************************************)
\* The characters of the class [...] of MOJIBAKE_HINT_RE, as code points:
\* A-tilde, A-circumflex, a-circumflex, euro, small tilde, trade mark, oe,
\* U+FFFD, cent, broken bar.
HintChars == {195, 194, 226, 8364, 732, 8482, 339, 65533, 162, 166}

Backslash == 92
LetterX == 120
\* [0-9a-fA-F]
IsHexDigit(c) == (c >= 48 /\ c <= 57) \/ (c >= 97 /\ c <= 102) \/ (c >= 65 /\ c <= 70)

\* MOJIBAKE_HINT_RE.search(s)
HasMojibakeHint(s) ==
    \/ \E k \in 1..Len(s) : s[k] \in HintChars
    \/ \E k \in 1..(Len(s) - 3) :
          /\ s[k] = Backslash
          /\ s[k + 1] = LetterX
          /\ IsHexDigit(s[k + 2])
          /\ IsHexDigit(s[k + 3])

\* s.encode("latin-1", errors="strict"): fails on a code point above 255
Latin1Encodable(s) == \A k \in 1..Len(s) : s[k] <= 255

IsCont(b) == b >= 128 /\ b <= 191

\* bytes.decode("utf-8", errors="strict") of the bytes b from position k on;
\* acc holds the code points decoded so far.  The result is [ok, s].
RECURSIVE Utf8DecodeFrom(_, _, _)
Utf8DecodeFrom(b, k, acc) ==
    IF k > Len(b) THEN [ok |-> TRUE, s |-> acc]
    ELSE LET b0 == b[k]
             has(n) == k + n <= Len(b)
             fail == [ok |-> FALSE, s |-> <<>>]
         IN  IF b0 < 128 THEN Utf8DecodeFrom(b, k + 1, Append(acc, b0))
             ELSE IF b0 >= 194 /\ b0 <= 223
             THEN IF has(1) /\ IsCont(b[k + 1])
                  THEN Utf8DecodeFrom(b, k + 2,
                          Append(acc, (b0 - 192) * 64 + (b[k + 1] - 128)))
                  ELSE fail
             ELSE IF b0 >= 224 /\ b0 <= 239
             THEN IF /\ has(2)
                     /\ IsCont(b[k + 1])
                     /\ IsCont(b[k + 2])
                     /\ (b0 = 224 => b[k + 1] >= 160)     \* no overlong form
                     /\ (b0 = 237 => b[k + 1] <= 159)     \* no surrogate
                  THEN Utf8DecodeFrom(b, k + 3,
                          Append(acc, (b0 - 224) * 4096 + (b[k + 1] - 128) * 64
                                      + (b[k + 2] - 128)))
                  ELSE fail
             ELSE IF b0 >= 240 /\ b0 <= 244
             THEN IF /\ has(3)
                     /\ IsCont(b[k + 1])
                     /\ IsCont(b[k + 2])
                     /\ IsCont(b[k + 3])
                     /\ (b0 = 240 => b[k + 1] >= 144)
                     /\ (b0 = 244 => b[k + 1] <= 143)
                  THEN Utf8DecodeFrom(b, k + 4,
                          Append(acc, (b0 - 240) * 262144 + (b[k + 1] - 128) * 4096
                                      + (b[k + 2] - 128) * 64 + (b[k + 3] - 128)))
                  ELSE fail
             ELSE fail

Utf8Decode(b) == Utf8DecodeFrom(b, 1, <<>>)

\* s.encode("latin-1").decode("utf-8"); a Latin-1 byte is the code point itself
Redecode(s) ==
    IF Latin1Encodable(s) THEN Utf8Decode(s) ELSE [ok |-> FALSE, s |-> <<>>]

\* mutant: a failed re-decoding gives what was decoded, not the argument
repair_mojibake_drops_on_failure(s) ==
    IF s = <<>> THEN s
    ELSE IF ~HasMojibakeHint(s) THEN s
    ELSE Redecode(s).s

repair_mojibake(s) ==
    IF s = <<>> THEN s
    ELSE IF ~HasMojibakeHint(s) THEN s
    ELSE IF Redecode(s).ok THEN Redecode(s).s
    ELSE s

(***************************************************************************)
(* Text utilities  (src/kdpsimplescraper.py:58-91)                         *)
(***************************************************************************)
\* what str.strip() and str.rstrip() without argument remove
Whitespace == {" ", "\n", "\t", "\r", "nbsp", "\f", "vt"}

RECURSIVE Flatten(_)
Flatten(ss) == IF ss = <<>> THEN <<>> ELSE Head(ss) \o Flatten(Tail(ss))

\* sep.join(parts)
RECURSIVE Join(_, _)
Join(parts, sep) ==
    IF parts = <<>> THEN <<>>
    ELSE IF Len(parts) = 1 THEN parts[1]
    ELSE parts[1] \o sep \o Join(Tail(parts), sep)

\* s.split(c): the pieces of s between the occurrences of the token c
RECURSIVE SplitFrom(_, _, _, _)
SplitFrom(s, c, k, cur) ==
    IF k > Len(s) THEN <<cur>>
    ELSE IF s[k] = c THEN <<cur>> \o SplitFrom(s, c, k + 1, <<>>)
    ELSE SplitFrom(s, c, k + 1, Append(cur, s[k]))

Split(s, c) == SplitFrom(s, c, 1, <<>>)

\* s.replace(a, b) for single tokens
ReplaceTok(s, a, b) == [k \in 1..Len(s) |-> IF s[k] = a THEN b ELSE s[k]]

\* s.replace("\r\n", b): left to right, without overlap
RECURSIVE ReplaceCRLF(_, _)
ReplaceCRLF(s, b) ==
    IF s = <<>> THEN <<>>
    ELSE IF Len(s) >= 2 /\ s[1] = "\r" /\ s[2] = "\n"
    THEN <<b>> \o ReplaceCRLF(SubSeq(s, 3, Len(s)), b)
    ELSE <<s[1]>> \o ReplaceCRLF(Tail(s), b)

\* length of the run of tokens of S that starts s
RECURSIVE RunLen(_, _)
RunLen(s, S) ==
    IF s = <<>> \/ s[1] \notin S THEN 0 ELSE 1 + RunLen(Tail(s), S)

\* re.sub of a pattern [S]{min,} by repl: every maximal run of at least min
\* tokens of S becomes repl; a shorter run stays
RECURSIVE SubRuns(_, _, _, _)
SubRuns(s, S, min, repl) ==
    IF s = <<>> THEN <<>>
    ELSE LET n == RunLen(s, S)
         IN  IF n = 0 THEN <<s[1]>> \o SubRuns(Tail(s), S, min, repl)
             ELSE IF n >= min THEN repl \o SubRuns(SubSeq(s, n + 1, Len(s)), S, min, repl)
             ELSE SubSeq(s, 1, n) \o SubRuns(SubSeq(s, n + 1, Len(s)), S, min, repl)

RECURSIVE LStrip(_, _)
LStrip(s, S) == IF s # <<>> /\ s[1] \in S THEN LStrip(Tail(s), S) ELSE s

RECURSIVE RStrip(_, _)
RStrip(s, S) ==
    IF s # <<>> /\ s[Len(s)] \in S THEN RStrip(SubSeq(s, 1, Len(s) - 1), S) ELSE s

\* mutant: only the left end is stripped
Strip_left_end_only(s, S) == LStrip(s, S)

\* s.strip(chars)
Strip(s, S) == LStrip(RStrip(s, S), S)

normalize_spaces_keep_newlines(s) ==
    IF s = <<>> THEN s
    ELSE LET a == ReplaceTok(s, "nbsp", " ")
             b == ReplaceTok(ReplaceCRLF(a, "\n"), "\r", "\n")
             c == SubRuns(b, {"\t", "\f", "vt"}, 1, <<" ">>)
         IN  SubRuns(c, {" "}, 2, <<" ">>)

\* mutant: the newlines are not replaced by spaces
normalize_spaces_singleline_keeps_newlines(s) ==
    IF s = <<>> THEN s
    ELSE LET a == ReplaceTok(s, "nbsp", " ")
             c == SubRuns(a, {"\t", "\f", "vt"}, 1, <<" ">>)
             d == SubRuns(c, {" "}, 2, <<" ">>)
         IN  Strip(d, Whitespace)

normalize_spaces_singleline(s) ==
    IF s = <<>> THEN s
    ELSE LET a == ReplaceTok(s, "nbsp", " ")
             b == ReplaceTok(ReplaceTok(ReplaceCRLF(a, " "), "\r", " "), "\n", " ")
             c == SubRuns(b, {"\t", "\f", "vt"}, 1, <<" ">>)
             d == SubRuns(c, {" "}, 2, <<" ">>)
         IN  Strip(d, Whitespace)

strip_line(s) == Strip(s, {" ", "\t"})

\* is_noise_line returns False on both of its paths
is_noise_line(line) == FALSE

(***************************************************************************)
(* Texts inside a block: html.unescape, repair_mojibake, str.upper         *)
(***************************************************************************)
\* html.unescape on the tokens of the model: the one character reference
\* among them is "&nbsp;" (a text that reads &amp;nbsp; in the source HTML)
html_unescape(s) == ReplaceTok(s, "&nbsp;", "nbsp")

\* The word tokens that hold a hint character of MOJIBAKE_HINT_RE, with the
\* word their Latin-1 bytes decode to as UTF-8.
MojibakeWord == [w \in {"A~(c)"} |-> "e'"]

\* repair_mojibake on a token text: ASCII tokens re-decode to themselves, a
\* mojibake word to its repaired word, and a lone byte 0xA0 (nbsp) is not
\* valid UTF-8, so the decoding fails and the text is returned unchanged.
repair_text(s) ==
    IF s = <<>> THEN s
    ELSE IF ~\E k \in 1..Len(s) : s[k] \in DOMAIN MojibakeWord THEN s
    ELSE IF \E k \in 1..Len(s) : s[k] \in {"nbsp", "e'"} THEN s
    ELSE [k \in 1..Len(s) |-> IF s[k] \in DOMAIN MojibakeWord THEN MojibakeWord[s[k]] ELSE s[k]]

\* str.upper() on the tokens of the model; a token without a cased letter
\* is its own upper case
UpperWord(w) ==
    CASE w = "a" -> "A"
      [] w = "b" -> "B"
      [] w = "c" -> "C"
      [] w = "Line" -> "LINE"
      [] w = "one" -> "ONE"
      [] w = "two" -> "TWO"
      [] w = "three" -> "THREE"
      [] w = "The" -> "THE"
      [] w = "quick" -> "QUICK"
      [] w = "brown" -> "BROWN"
      [] w = "fox" -> "FOX"
      [] w = "jumps." -> "JUMPS."
      [] w = "abcdefghij" -> "ABCDEFGHIJ"
      [] OTHER -> w

upper(s) == [k \in 1..Len(s) |-> UpperWord(s[k])]

\* len(s) in characters: a whitespace token, a one-letter word, a digit and
\* a punctuation mark count 1 ("CAPITULO" stands for the word with I-acute)
WordLen(w) ==
    CASE w \in {"IV", "12", "by", "By"} -> 2
      [] w \in {"one", "two", "The", "fox", "IV.", "die", "ONE", "TWO", "THE", "FOX"} -> 3
      [] w \in {"Line", "LINE", "PART", "part", "CAP."} -> 4
      [] w \in {"three", "quick", "brown", "THREE", "QUICK", "BROWN", "PARTE"} -> 5
      [] w \in {"jumps.", "JUMPS.", "Escape"} -> 6
      [] w \in {"CHAPTER", "chapter", "Chapter"} -> 7
      [] w \in {"CAPITULO", "CHAPTERS"} -> 8
      [] w \in {"abcdefghij", "ABCDEFGHIJ", "Translated", "Traduccion"} -> 10
      [] OTHER -> 1

RECURSIVE TextLen(_)
TextLen(s) == IF s = <<>> THEN 0 ELSE WordLen(s[1]) + TextLen(Tail(s))

(***************************************************************************)
(* The parsed document: a tree of nodes.  A text node has tag "#text" and  *)
(* its string in text; an element has its tag name, its class attribute    *)
(* and its children.                                                       *)
(***************************************************************************)
TextNode(s) == [tag |-> "#text", class |-> "", text |-> s, kids |-> <<>>]
Element(tag, class, kids) == [tag |-> tag, class |-> class, text |-> <<>>, kids |-> kids]
BR == Element("br", "", <<>>)
HR == Element("hr", "", <<>>)

\* the strings of the text nodes below a node, in document order
RECURSIVE AllStrings(_)
AllStrings(node) ==
    IF node.tag = "#text" THEN <<node.text>>
    ELSE Flatten([k \in 1..Len(node.kids) |-> AllStrings(node.kids[k])])

RECURSIVE DropEmpty(_)
DropEmpty(ss) ==
    IF ss = <<>> THEN <<>>
    ELSE IF Head(ss) = <<>> THEN DropEmpty(Tail(ss))
    ELSE <<Head(ss)>> \o DropEmpty(Tail(ss))

\* tag.get_text(sep, strip=...): the strings of the node joined by sep; with
\* strip each string is stripped and an empty one is skipped
get_text(node, sep, strip) ==
    LET strings == AllStrings(node)
    IN  IF strip
        THEN Join(DropEmpty([k \in 1..Len(strings) |-> Strip(strings[k], Whitespace)]), <<sep>>)
        ELSE Join(strings, <<sep>>)

\* node.find_all(tags): the descendants with one of the tags, document order
RECURSIVE find_all(_, _)
find_all(node, tags) ==
    Flatten([k \in 1..Len(node.kids) |->
                (IF node.kids[k].tag \in tags THEN <<node.kids[k]>> ELSE <<>>)
                \o find_all(node.kids[k], tags)])

\* node.find_all(tags, recursive=False): the children with one of the tags
RECURSIVE KeepTagged(_, _)
KeepTagged(nodes, tags) ==
    IF nodes = <<>> THEN <<>>
    ELSE (IF Head(nodes).tag \in tags THEN <<Head(nodes)>> ELSE <<>>)
         \o KeepTagged(Tail(nodes), tags)

find_children(node, tags) == KeepTagged(node.kids, tags)

(***************************************************************************)
(* extract_clean_text  (src/kdpsimplescraper.py:98-272)                    *)
(***************************************************************************)
POETRY_CLASS_HINTS == {"poetry", "verse", "stanza", "poem"}

\* `h in cls` is a substring test; of the class values of the model, those
\* that contain a hint are the hints themselves
looks_like_poetry_block(tag) == tag.class \in POETRY_CLASS_HINTS

BLOCK_TAGS == {"h1", "h2", "h3", "h4", "h5", "p", "pre", "blockquote", "ul", "ol", "hr", "div"}

HeadingTags == {"h1", "h2", "h3", "h4", "h5"}

\* a heading of at most this many characters is uppercased
HeadingUpperMax == 80

RECURSIVE TrimLeadingEmpty(_)
TrimLeadingEmpty(lines) ==
    IF lines # <<>> /\ Head(lines) = <<>> THEN TrimLeadingEmpty(Tail(lines)) ELSE lines

RECURSIVE TrimTrailingEmpty(_)
TrimTrailingEmpty(lines) ==
    IF lines # <<>> /\ lines[Len(lines)] = <<>>
    THEN TrimTrailingEmpty(SubSeq(lines, 1, Len(lines) - 1))
    ELSE lines

RECURSIVE DropNoise(_)
DropNoise(lines) ==
    IF lines = <<>> THEN <<>>
    ELSE (IF is_noise_line(Head(lines)) THEN <<>> ELSE <<Head(lines)>>) \o DropNoise(Tail(lines))

\* add_block: the texts it appends to blocks (none or one)
add_block(text_in, preserve_newlines) ==
    IF text_in = <<>> THEN <<>>
    ELSE LET t == repair_text(html_unescape(text_in))
         IN  IF preserve_newlines
             THEN LET n == normalize_spaces_keep_newlines(t)
                      parts == Split(n, "\n")
                      stripped == [k \in 1..Len(parts) |-> strip_line(parts[k])]
                      lines == TrimTrailingEmpty(TrimLeadingEmpty(stripped))
                      kept == DropNoise(lines)
                  IN  IF lines = <<>> \/ kept = <<>> THEN <<>>
                      ELSE <<Join(kept, <<"\n">>)>>
             ELSE LET block == normalize_spaces_singleline(t)
                  IN  IF block = <<>> THEN <<>> ELSE <<block>>

Tagged(src, texts) == [k \in 1..Len(texts) |-> [src |-> src, text |-> texts[k]]]

\* txt.replace("\r\n", "\n").replace("\r", "\n"); re.sub(r"\n{3,}", "\n\n", txt)
PreserveLines(txt) ==
    SubRuns(ReplaceTok(ReplaceCRLF(txt, "\n"), "\r", "\n"), {"\n"}, 3, <<"\n", "\n">>)

RECURSIVE ListItems(_)
ListItems(lis) ==
    IF lis = <<>> THEN <<>>
    ELSE LET it == get_text(Head(lis), " ", TRUE)
         IN  (IF it # <<>> THEN <<(<<"-", " ">> \o it)>> ELSE <<>>) \o ListItems(Tail(lis))

\* handle(tag): the blocks it appends, each with the branch that appended it
handle(tag, o) ==
    LET name == tag.tag
    IN  IF name \in HeadingTags
        THEN LET txt == get_text(tag, " ", TRUE)
             IN  IF txt # <<>>
                 THEN Tagged("heading",
                             add_block(IF TextLen(txt) <= HeadingUpperMax THEN upper(txt) ELSE txt,
                                       FALSE))
                 ELSE <<>>
        ELSE IF name = "hr" THEN <<[src |-> "hr", text |-> <<>>]>>
        ELSE IF name \in {"ul", "ol"}
        THEN LET items == ListItems(find_children(tag, {"li"}))
             IN  IF items # <<>>
                 THEN Tagged("list", add_block(Join(items, <<"\n">>), TRUE))
                 ELSE <<>>
        ELSE IF name = "pre" /\ o.preserve_preformatted
        THEN Tagged("pre", add_block(PreserveLines(get_text(tag, "\n", FALSE)), TRUE))
        ELSE IF name = "blockquote"
        THEN Tagged("blockquote", add_block(PreserveLines(get_text(tag, "\n", FALSE)), TRUE))
        ELSE IF o.preserve_poetry /\ looks_like_poetry_block(tag)
        THEN Tagged("poetry", add_block(PreserveLines(get_text(tag, "\n", FALSE)), TRUE))
        ELSE IF name \in {"p", "div"}
        THEN IF /\ name = "div"
                /\ find_children(tag, {"p", "h1", "h2", "h3", "h4", "h5", "pre", "ul", "ol",
                                       "blockquote"}) # <<>>
             THEN <<>>
             ELSE IF o.keep_br_as_newline /\ Len(find_all(tag, {"br"})) > 0
             THEN Tagged("brpara", add_block(get_text(tag, "\n", FALSE), TRUE))
             ELSE Tagged("para", add_block(get_text(tag, " ", FALSE), FALSE))
        ELSE <<>>

\* for el in container.find_all(BLOCK_TAGS): handle(el)
RECURSIVE HandleAll(_, _)
HandleAll(els, o) ==
    IF els = <<>> THEN <<>> ELSE handle(Head(els), o) \o HandleAll(Tail(els), o)

Walk(container, o) == HandleAll(find_all(container, BLOCK_TAGS), o)

\* lines 265-272: join the blocks, reduce blank lines, strip the lines
Stitch(texts) ==
    LET joined == Join(texts, <<"\n", "\n">>)
        reduced == SubRuns(joined, {"\n"}, 4, <<"\n", "\n", "\n">>)
        parts == Split(reduced, "\n")
        lines == [k \in 1..Len(parts) |-> RStrip(parts[k], Whitespace)]
    IN  Strip(Join(lines, <<"\n">>), Whitespace) \o <<"\n">>

BlockTexts(bs) == [k \in 1..Len(bs) |-> bs[k].text]

\* extract_clean_text on a document whose selected container is `container`
extract_clean_text(container, o) == Stitch(BlockTexts(Walk(container, o)))

ExtractOptions ==
    [keep_br_as_newline : BOOLEAN, preserve_preformatted : BOOLEAN, preserve_poetry : BOOLEAN]

(***************************************************************************)
(* BookCleaner.clean_text  (src/kdp1.py:107-152)                           *)
(***************************************************************************)
\* aggressive mode drops a line shorter than this
ShortLineMax == 10

\* a token made of decimal digits only
DigitWords == {"4", "12"}

\* SEPARATOR_LINE_RE, first alternative \*+\s*\*+\s*\*+ : up to three groups
\* of stars with whitespace between them, three stars or more in all
RECURSIVE StarGroups(_)
StarGroups(s) ==
    IF s = <<>> THEN 0
    ELSE LET n == RunLen(s, {"*"})
         IN  IF n = 0 THEN StarGroups(Tail(s))
             ELSE 1 + StarGroups(SubSeq(s, n + 1, Len(s)))

StarSeparator(s) ==
    /\ \A k \in 1..Len(s) : s[k] = "*" \/ s[k] \in Whitespace
    /\ Cardinality({k \in 1..Len(s) : s[k] = "*"}) >= 3
    /\ StarGroups(s) <= 3

\* SEPARATOR_LINE_RE.match(s)
SEPARATOR_LINE_RE(s) ==
    LET t == Strip(s, Whitespace)
    IN  /\ t # <<>>
        /\ \/ StarSeparator(t)
           \/ Len(t) >= 3 /\ \A k \in 1..Len(t) : t[k] \in {"-", "_", "="}
           \/ Len(t) >= 3 /\ \A k \in 1..Len(t) : t[k] = "bullet"
           \/ Len(t) >= 3 /\ \A k \in 1..Len(t) : t[k] = "middot"
           \/ Len(t) >= 3 /\ \A k \in 1..Len(t) : t[k] = "emdash"

\* BARE_NUMBER_RE.match(s): ^\s*\d+\s*$
BARE_NUMBER_RE(s) ==
    LET t == Strip(s, Whitespace)
    IN  t # <<>> /\ \A k \in 1..Len(t) : t[k] \in DigitWords

\* the keywords of CHAPTER_RE, matched with re.IGNORECASE
ChapterKeywords == {"CHAPTER", "chapter", "Chapter", "CAPITULO", "CAP.", "PARTE", "PART", "part"}

\* the tokens that begin with a character of [IVXLCDM] (any case, the flag
\* re.IGNORECASE covers the class) or with a digit
NumeralStart == {"IV", "IV.", "4", "12", "die", "c"}

\* CHAPTER_RE.match(s): ^(CHAPTER|...)\s+([IVXLCDM]+|\d+)
CHAPTER_RE(s) ==
    /\ Len(s) >= 3
    /\ s[1] \in ChapterKeywords
    /\ LET n == RunLen(Tail(s), Whitespace)
       IN  /\ n >= 1
           /\ Len(s) >= n + 2
           /\ s[n + 2] \in NumeralStart

\* the characters of the test `all(ch in "*-_=..." for ch in s)`
ShortDecoration == {"*", "-", "_", "=", "middot", "bullet"}

\* the loop body of clean_text: the line kept (stripped), or nothing
CleanLine(line, aggressive) ==
    LET s == Strip(ReplaceTok(line, "nbsp", " "), Whitespace)
    IN  IF SEPARATOR_LINE_RE(s) THEN <<>>
        ELSE IF BARE_NUMBER_RE(s) THEN <<>>
        ELSE IF /\ TextLen(s) > 0
                /\ TextLen(s) <= 2
                /\ \A k \in 1..Len(s) : s[k] \in ShortDecoration
        THEN <<>>
        ELSE IF aggressive /\ TextLen(s) > 0 /\ TextLen(s) < ShortLineMax /\ ~CHAPTER_RE(s)
        THEN <<>>
        ELSE <<s>>

RECURSIVE CleanLines(_, _)
CleanLines(lines, aggressive) ==
    IF lines = <<>> THEN <<>>
    ELSE CleanLine(Head(lines), aggressive) \o CleanLines(Tail(lines), aggressive)

\* re.sub(r"[ \t]+\n", "\n", out)
RECURSIVE DropBlanksBeforeNewline(_)
DropBlanksBeforeNewline(s) ==
    IF s = <<>> THEN <<>>
    ELSE LET n == RunLen(s, {" ", "\t"})
         IN  IF n > 0 /\ Len(s) > n /\ s[n + 1] = "\n"
             THEN DropBlanksBeforeNewline(SubSeq(s, n + 1, Len(s)))
             ELSE IF n > 0
             THEN SubSeq(s, 1, n) \o DropBlanksBeforeNewline(SubSeq(s, n + 1, Len(s)))
             ELSE <<s[1]>> \o DropBlanksBeforeNewline(Tail(s))

\* re.sub(r"\n[ \t]+", "\n", out)
RECURSIVE DropBlanksAfterNewline(_)
DropBlanksAfterNewline(s) ==
    IF s = <<>> THEN <<>>
    ELSE IF s[1] = "\n"
    THEN LET n == RunLen(Tail(s), {" ", "\t"})
         IN  <<"\n">> \o DropBlanksAfterNewline(SubSeq(s, n + 2, Len(s)))
    ELSE <<s[1]>> \o DropBlanksAfterNewline(Tail(s))

\* MULTI_BLANKS_RE.sub("\n\n", out)
MULTI_BLANKS_RE_sub(s) == SubRuns(s, {"\n"}, 3, <<"\n", "\n">>)

clean_text(text, aggressive) ==
    LET t == ReplaceTok(ReplaceCRLF(text, "\n"), "\r", "\n")
        lines == Split(t, "\n")
        cleaned == CleanLines(lines, aggressive)
        joined == Join(cleaned, <<"\n">>)
        a == DropBlanksBeforeNewline(joined)
        b == DropBlanksAfterNewline(a)
        c == MULTI_BLANKS_RE_sub(b)
    IN  Strip(c, Whitespace) \o <<"\n">>

(***************************************************************************)
(* BookCleaner.detect_structure  (src/kdp1.py:154-186)                     *)
(* None and the empty string are both the empty sequence.                  *)
(***************************************************************************)
ScanLines == 50     \* lines[:50]
TitleMin == 5       \* len(line) > 5
TitleMax == 200     \* len(line) < 200

\* the words whose lower-case form ends with "by" or with "por": followed
\* by a space they hold "by " or "por "
ByWords == {"by", "By", "BY", "baby", "por", "Por"}

\* the words whose lower-case form holds "translat" or "traducc"
TranslatWords == {"Translated", "translation", "Traduccion"}

HasByPhrase(line) ==
    \E k \in 1..(Len(line) - 1) : line[k] \in ByWords /\ line[k + 1] = " "

\* lines 167-176: one turn of the loop of line 166, line being stripped
HeadStep(line, st) ==
    IF line = <<>> THEN st
    ELSE IF st.title = <<>> /\ TextLen(line) > TitleMin /\ TextLen(line) < TitleMax
    THEN [st EXCEPT !.title = line]
    ELSE IF HasByPhrase(line) THEN [st EXCEPT !.author = line]
    ELSE IF Range(line) \cap TranslatWords # {} THEN [st EXCEPT !.translator = line]
    ELSE st

\* the loop of line 166 from line k on
RECURSIVE ScanHead(_, _, _)
ScanHead(lines, k, st) ==
    IF k > Len(lines) \/ k > ScanLines THEN st
    ELSE ScanHead(lines, k + 1, HeadStep(Strip(lines[k], Whitespace), st))

\* the loop of line 179
RECURSIVE ScanChapters(_, _)
ScanChapters(lines, k) ==
    IF k > Len(lines) THEN <<>>
    ELSE (IF CHAPTER_RE(Strip(lines[k], Whitespace))
          THEN <<[line |-> k - 1, title |-> Strip(lines[k], Whitespace)]>>
          ELSE <<>>)
         \o ScanChapters(lines, k + 1)

detect_structure(text) ==
    LET lines == Split(text, "\n")
        head == ScanHead(lines, 1, [title |-> <<>>, author |-> <<>>, translator |-> <<>>])
    IN  [title |-> head.title, author |-> head.author, translator |-> head.translator,
         chapters |-> ScanChapters(lines, 1)]

(***************************************************************************)
(* Inputs of extract_clean_text                                            *)
(***************************************************************************)
\* the children a generated block element is made of: a text with a line
\* break of the HTML source in it, a whitespace-only text, a <br>
GenKids == {TextNode(<<"a", "\n", "b">>), TextNode(<<"\n">>), BR}

\* the parser merges adjacent character data into one text node
NoAdjacentText(ks) ==
    \A k \in 1..(Len(ks) - 1) : ~(ks[k].tag = "#text" /\ ks[k + 1].tag = "#text")

GenKidSeqs == {ks \in SeqsUpTo(GenKids, MaxKids) : NoAdjacentText(ks)}

GenTags == {<<"h2", "">>, <<"p", "">>, <<"p", "poetry">>, <<"pre", "">>,
            <<"blockquote", "">>, <<"div", "">>, <<"div", "stanza">>}

\* <div class="poetry">Line one<br>Line two<br><br>Line three</div>
PoetryScenario ==
    Element("div", "poetry",
            <<TextNode(<<"Line", " ", "one">>), BR, TextNode(<<"Line", " ", "two">>), BR, BR,
              TextNode(<<"Line", " ", "three">>)>>)

\* <p>The quick brown\nfox jumps.</p>
ParagraphScenario ==
    Element("p", "",
            <<TextNode(<<"The", " ", "quick", " ", "brown", "\n", "fox", " ", "jumps.">>)>>)

\* <div><h2>a\nb</h2><p>The quick brown\nfox jumps.</p></div>
HeadedScenario ==
    Element("div", "", <<Element("h2", "", <<TextNode(<<"a", "\n", "b">>)>>), ParagraphScenario>>)

\* <div><p>a</p><hr><p>b</p></div>
RuleScenario ==
    Element("div", "",
            <<Element("p", "", <<TextNode(<<"a">>)>>), HR,
              Element("p", "", <<TextNode(<<"b">>)>>)>>)

\* block elements inside block elements:
\* <blockquote><p>a</p></blockquote>, <div><div>a</div></div>,
\* <div><span><p>a</p></span></div>, <ul><li><p>a</p></li></ul>,
\* <div class="poetry"><p>a</p></div>
NestedScenarios ==
    {Element("blockquote", "", <<Element("p", "", <<TextNode(<<"a">>)>>)>>),
     Element("div", "", <<Element("div", "", <<TextNode(<<"a">>)>>)>>),
     Element("div", "", <<Element("span", "", <<Element("p", "", <<TextNode(<<"a">>)>>)>>)>>),
     Element("ul", "", <<Element("li", "", <<Element("p", "", <<TextNode(<<"a">>)>>)>>)>>),
     Element("div", "poetry", <<Element("p", "", <<TextNode(<<"a">>)>>)>>)}

\* a text of n words of ten letters, sep between two of them
RECURSIVE TenLetterWords(_, _)
TenLetterWords(n, sep) ==
    IF n = 1 THEN <<"abcdefghij">> ELSE TenLetterWords(n - 1, sep) \o sep \o <<"abcdefghij">>

\* headings of 80 and of 81 characters, a heading of 76 characters written
\* with two blanks between its words (82 characters in the source), a
\* heading without text
HeadingScenarios ==
    {Element("h1", "", <<TextNode(TenLetterWords(7, <<" ">>) \o <<" ", "one">>)>>),
     Element("h1", "", <<TextNode(TenLetterWords(7, <<" ">>) \o <<" ", "Line">>)>>),
     Element("h3", "", <<TextNode(TenLetterWords(7, <<" ", " ">>))>>),
     Element("h5", "", <<TextNode(<<" ", "\n">>)>>)}

\* lists: <ul><li>a</li><li> </li><li>b</li></ul>, <ol><li> </li></ol>,
\* <ul><li>a<ul><li>b</li></ul></li><li>c</li></ul>
ListScenarios ==
    {Element("ul", "", <<Element("li", "", <<TextNode(<<"a">>)>>),
                         Element("li", "", <<TextNode(<<" ">>)>>),
                         Element("li", "", <<TextNode(<<"b">>)>>)>>),
     Element("ol", "", <<Element("li", "", <<TextNode(<<" ">>)>>)>>),
     Element("ul", "", <<Element("li", "", <<TextNode(<<"a">>),
                                             Element("ul", "", <<Element("li", "", <<TextNode(<<"b">>)>>)>>)>>),
                         Element("li", "", <<TextNode(<<"c">>)>>)>>)}

\* <p> a&nbsp;\t b \r\n A~(c)</p>: every kind of whitespace, and a mojibake word
WhitespaceScenario ==
    Element("p", "",
            <<TextNode(<<" ", "a", "nbsp", "\t", " ", "b", " ", "\r", "\n", "A~(c)", "&nbsp;">>)>>)

TopElements ==
    {Element(t[1], t[2], ks) : t \in GenTags, ks \in GenKidSeqs}
    \cup {HR, PoetryScenario, ParagraphScenario, HeadedScenario, RuleScenario,
          WhitespaceScenario}
    \cup NestedScenarios
    \cup ListScenarios
    \cup HeadingScenarios

(***************************************************************************)
(* Inputs of BookCleaner.clean_text                                        *)
(***************************************************************************)
CleanAlphabet == {"a", "*", " ", "\n", "\r"}

RawLinePool ==
    {<<>>,
     <<"a">>,
     <<"*", "*", "*", " ", "*", "*", "*", " ", "*", "*", "*">>,
     <<"*", " ", "*", " ", "*", " ", "*", " ", "*">>,
     <<"endash", "endash", "endash">>,
     <<" ", "b", "\t">>,
     <<"4">>,
     <<"-">>,
     <<"CHAPTER", " ", "IV.", " ", "The", " ", "Escape">>,
     <<"abcdefghij">>}

RawInputs ==
    SeqsUpTo(CleanAlphabet, MaxRawLen)
    \cup {Join(ls, <<"\n">>) : ls \in SeqsUpTo(RawLinePool, MaxLines)}

(***************************************************************************)
(* URLs  (src/kdpsimplescraper.py:323-340)                                 *)
(* A URL or an href is a sequence of tokens: the root "scheme://host", the *)
(* article prefix "/wiki/", the title (a name, or a namespace, ":" and a   *)
(* name), then optionally "?" and the query parameters separated by "&",   *)
(* then optionally "#" and the fragment.                                   *)
(***************************************************************************)
\* position of the first token t of s, 0 when there is none
IndexOf(s, t) ==
    IF \E k \in 1..Len(s) : s[k] = t
    THEN CHOOSE k \in 1..Len(s) : s[k] = t /\ \A j \in 1..(k - 1) : s[j] # t
    ELSE 0

\* the part of s before the first token t (all of s when there is none)
Before(s, t) == IF IndexOf(s, t) = 0 THEN s ELSE SubSeq(s, 1, IndexOf(s, t) - 1)

\* the part of s after the first token t (empty when there is none)
After(s, t) == IF IndexOf(s, t) = 0 THEN <<>> ELSE SubSeq(s, IndexOf(s, t) + 1, Len(s))

\* mutant: the fragment stays
_strip_fragment_keeps_fragment(url) == url

_strip_fragment(url) == Before(url, "#")

\* urlparse(url).query
QueryOf(url) == After(_strip_fragment(url), "?")

_ensure_action_render(url) ==
    LET query == QueryOf(url)
        new_query == IF query # <<>> THEN query \o <<"&", "action=render">>
                     ELSE <<"action=render">>
        fragment == IF IndexOf(url, "#") = 0 THEN <<>> ELSE <<"#">> \o After(url, "#")
    IN  IF "action=render" \in Range(query) THEN url
        ELSE Before(_strip_fragment(url), "?") \o <<"?">> \o new_query \o fragment

Root == "https://en.wikisource.org"

\* the roots whose host is wikisource.org or ends with .wikisource.org
WikisourceRoots == {Root, "https://wikisource.org", "https://es.wikisource.org"}

_is_wikisource_url(url) == url # <<>> /\ url[1] \in WikisourceRoots

\* mutant: the namespace is compared as written
LowerWord_as_written(w) == w

\* str.lower() of a namespace token
LowerWord(w) ==
    CASE w \in {"Help", "HELP"} -> "help"
      [] w = "Special" -> "special"
      [] w = "File" -> "file"
      [] w = "Category" -> "category"
      [] w = "Talk" -> "talk"
      [] w = "Template" -> "template"
      [] w = "Portal" -> "portal"
      [] w = "Author" -> "author"
      [] OTHER -> w

lower(s) == [k \in 1..Len(s) |-> LowerWord(s[k])]

WIKISOURCE_EXCLUDED_NAMESPACES ==
    {"special", "help", "file", "category", "talk", "template", "portal"}

\* lines 351-377 for the anchors from position k on; links is the list so far
\* (the set seen of line 349 holds the same URLs as the list links)
RECURSIVE LinksFrom(_, _, _, _)
LinksFrom(hrefs, k, base_url, links) ==
    IF k > Len(hrefs) THEN links
    ELSE LET base_root == base_url[1]
             a == hrefs[k]
             rel == IF a # <<>> /\ a[1] = "/wiki/" THEN a
                    ELSE IF Len(a) >= 2 /\ a[1] = base_root /\ a[2] = "/wiki/" THEN Tail(a)
                    ELSE <<>>
             href == _strip_fragment(rel)
             title == After(href, "/wiki/")
             namespace == lower(Before(title, ":"))
             excluded == /\ ":" \in Range(title)
                         /\ \E ns \in WIKISOURCE_EXCLUDED_NAMESPACES : namespace = <<ns>>
             abs_url == <<base_root>> \o href
             skip == \/ rel = <<>>
                     \/ excluded
                     \/ abs_url[1] # base_url[1]
                     \/ abs_url \in Range(links)
                     \/ _strip_fragment(abs_url) = _strip_fragment(base_url)
         IN  LinksFrom(hrefs, k + 1, base_url, IF skip THEN links ELSE Append(links, abs_url))

\* html is the fetched page: its anchors (the href of each <a href> of the
\* container, document order) and its content element
extract_wikisource_chapter_links(html, base_url) == LinksFrom(html.anchors, 1, base_url, <<>>)

(***************************************************************************)
(* Wikisource chapter cleaning  (src/kdpsimplescraper.py:382-425)          *)
(***************************************************************************)
\* the classes of the selectors of lines 400-405 that the pages use
DecomposedClasses == {"mw-editsection", "toc", "navbox", "catlinks", "printfooter", "noprint"}

\* lines 400-406: every element matching a selector is removed with its subtree
RECURSIVE Decompose(_)
Decompose(node) ==
    LET kept == SelectSeq(node.kids, LAMBDA n : n.class \notin DecomposedClasses)
    IN  [node EXCEPT !.kids = [k \in 1..Len(kept) |-> Decompose(kept[k])]]

_extract_wikisource_title(soup, content) ==
    LET h1s == find_all(soup, {"h1"})
        headings == find_all(content, {"h1", "h2", "h3", "h4", "h5", "h6"})
    IN  IF h1s # <<>> /\ get_text(h1s[1], "", TRUE) # <<>>
        THEN get_text(h1s[1], " ", TRUE)
        ELSE IF headings # <<>> /\ get_text(headings[1], "", TRUE) # <<>>
        THEN get_text(headings[1], " ", TRUE)
        ELSE <<"Capitulo">>

\* a token whose lower-case form contains a phrase of WIKISOURCE_TEXT_NOISE
NoiseWords == {"Retrieved from", "PUBLIC DOMAIN", "Categories:"}

\* str.splitlines() of a text whose only line ends are "\n"
splitlines(s) ==
    IF s = <<>> THEN <<>>
    ELSE IF s[Len(s)] = "\n" THEN Split(SubSeq(s, 1, Len(s) - 1), "\n")
    ELSE Split(s, "\n")

\* line 419: filtered + "\n" if filtered else ""
WithNewline(filtered) == IF filtered # <<>> THEN filtered \o <<"\n">> ELSE <<>>

\* lines 410-419, for the text extract_clean_text returned
FilterNoise(cleaned) ==
    IF cleaned = <<>> THEN <<>>
    ELSE LET lines == SelectSeq(splitlines(cleaned),
                                LAMBDA line : Range(line) \cap NoiseWords = {})
         IN  WithNewline(Strip(Join(lines, <<"\n">>), Whitespace))

\* lines 408-419, for the content element after the removals
TitleAndBody(content, o) ==
    [title |-> _extract_wikisource_title(content, content),
     body |-> FilterNoise(extract_clean_text(Element("body", "", <<content>>), o))]

\* returns the pair (title, body)
_clean_wikisource_content(html, o) == TitleAndBody(Decompose(html.content), o)

Divider == "============================================================"

_format_wikisource_section(title, url, body) ==
    <<"\n", "\n", Divider, "\n">> \o title \o <<"\n">> \o url \o <<"\n", Divider, "\n", "\n">>
    \o RStrip(body, Whitespace) \o <<"\n">>

\* lines 728-732
CombineSections(chs) ==
    LET combined_parts ==
            [k \in 1..Len(chs) |->
                _format_wikisource_section(chs[k].title, chs[k].url, chs[k].body)]
    IN  Strip(Flatten(combined_parts), Whitespace) \o <<"\n">>

\* mutant: the threshold is 5
IsVolume_from_five(subs) == Len(subs) >= 5

\* mutant: the chapter is appended whatever its body
append_chapter_always(chs, url, page) ==
    Append(chs, [title |-> page.title, url |-> url, body |-> page.body])

\* mutant: the chapter is inserted at the front of the list
append_chapter_in_front(chs, url, page) ==
    IF page.body # <<>>
    THEN <<[title |-> page.title, url |-> url, body |-> page.body]>> \o chs
    ELSE chs

\* lines 453-455 and 457-459, page being the pair (title, body):
\* if body: chapters.append((title, url, body))
append_chapter(chs, url, page) ==
    IF page.body # <<>>
    THEN Append(chs, [title |-> page.title, url |-> url, body |-> page.body])
    ELSE chs

\* mutant: the URL to fetch is looked up in seen, which holds the links
already_visited_as_rendered(link, s) == _ensure_action_render(link) \in s

\* mutant: the set seen is not consulted
already_visited_never(link, s) == FALSE

\* lines 439 and 448: if link in seen: continue
already_visited(link, s) == link \in s

\* line 446: the page is a volume page
IsVolume(subs) == Len(subs) >= 4

(***************************************************************************)
(* The Wikisource site the crawl runs against                              *)
(***************************************************************************)
WorkName == "Work"
Volume1 == "Work/Volume_1"
Volume2 == "Work/Volume_2"
NotesName == "Work/Notes"
ChapterPool ==
    <<"Work/Chapter_1", "Work/Chapter_2", "Work/Chapter_3", "Work/Chapter_4",
      "Work/Chapter_5", "Work/Chapter_6", "Work/Chapter_7", "Work/Chapter_8">>

PageNames == {WorkName, Volume1, Volume2, NotesName} \cup Range(ChapterPool)

Link(name) == <<"/wiki/", name>>
AbsLink(name) == <<Root, "/wiki/", name>>

\* the links to the first n chapters of the pool from position i on
ChapterLinks(i, n) ==
    LET last == IF i + n - 1 > Len(ChapterPool) THEN Len(ChapterPool) ELSE i + n - 1
    IN  [k \in 1..(last - i + 1) |-> Link(ChapterPool[i + k - 1])]

\* what a volume page holds before its chapter links: nothing; a link back
\* to the index page; links the extraction drops (an excluded namespace in
\* two spellings, another host, a protocol-relative link, an empty href, a
\* link to the page itself) and a link kept (the Author namespace, which is
\* then a duplicate once its fragment is stripped)
VolumeDecos ==
    {<<>>,
     <<Link(WorkName)>>,
     <<(<<"/wiki/", "Help", ":", "Contents">>), (<<"/wiki/", "HELP", ":", "Contents">>),
       (<<"https://example.org", "/wiki/", "Work">>), (<<"//en.wikisource.org", "/wiki/", "Work">>),
       (<<>>), (<<"/wiki/", Volume1, "#", "top">>),
       (<<"/wiki/", "Author", ":", "Homer">>), (<<"/wiki/", "Author", ":", "Homer", "#", "works">>)>>}

\* the anchors of the second first-level page: one sub-link; none; the
\* chapters 3 to 7 (some already visited through the first volume); the
\* first volume and three more
SecondVolumeLists ==
    {<<Link(NotesName)>>,
     <<>>,
     ChapterLinks(3, 5),
     <<Link(Volume1), Link(ChapterPool[1]), AbsLink(NotesName), Link(ChapterPool[8])>>}

\* the anchors of the index page
IndexLists ==
    {<<Link(Volume1), Link(Volume2)>>,
     <<AbsLink(Volume2), Link(Volume1), (<<"/wiki/", Volume1, "#", "s2">>)>>,
     <<Link(ChapterPool[1]), Link(Volume1), Link(Volume2)>>,
     <<Link(Volume1), Link(ChapterPool[2]), Link(Volume2)>>,
     <<(<<"/wiki/", WorkName, "#", "top">>), (<<"/wiki/", "Special", ":", "Search">>)>>,
     <<>>}

\* a page with a section-edit link and a navigation box (both removed), a
\* heading, a paragraph and a footer line
Content(name) ==
    Element("div", "mw-parser-output",
            <<Element("div", "noprint", <<Element("p", "", <<TextNode(<<"navigation">>)>>)>>),
              Element("h2", "", <<TextNode(<<"Chapter">>),
                                  Element("span", "mw-editsection", <<TextNode(<<"[edit]">>)>>)>>),
              Element("p", "", <<TextNode(<<"Text", " ", "of", "\n", name>>)>>),
              Element("p", "", <<TextNode(<<"Retrieved from", " ", Root>>)>>)>>)

\* a page whose cleaned body is empty
BlankContent ==
    Element("div", "mw-parser-output",
            <<Element("div", "catlinks", <<Element("p", "", <<TextNode(<<"Categories:">>)>>)>>),
              Element("p", "", <<TextNode(<<"PUBLIC DOMAIN">>)>>)>>)

\* the sites: every index page and second page with a first volume page of
\* chapter links only; every kind of first volume page, and a chapter page
\* with an empty body, under an index page of two or three links
Sites ==
    [index : IndexLists, deco : {<<>>}, n1 : 0..MaxSub, v2 : SecondVolumeLists, blank : {""}]
    \cup [index : {<<Link(Volume1), Link(Volume2)>>,
                   <<Link(Volume1), Link(ChapterPool[2]), Link(Volume2)>>},
          deco : VolumeDecos, n1 : 0..MaxSub, v2 : {<<Link(NotesName)>>},
          blank : {"", ChapterPool[2]}]

\* the page the site serves under a name
PageOf(w, name) ==
    [anchors |-> CASE name = WorkName -> w.index
                   [] name = Volume1 -> w.deco \o ChapterLinks(1, w.n1)
                   [] name = Volume2 -> w.v2
                   [] OTHER -> <<Link(WorkName)>>,
     content |-> IF name = w.blank THEN BlankContent ELSE Content(name)]

\* the page a URL names: its fragment and the parameter action=render do
\* not matter
PageKey(url) ==
    LET plain == _strip_fragment(url)
        others == SelectSeq(QueryOf(plain), LAMBDA t : t \notin {"action=render", "&"})
    IN  Before(plain, "?") \o (IF others = <<>> THEN <<>> ELSE <<"?">> \o others)

\* the site has a page for the URL
Served(url) ==
    LET key == PageKey(url)
    IN  Len(key) = 3 /\ key[1] = Root /\ key[2] = "/wiki/" /\ key[3] \in PageNames

\* str(e) of the exception urlopen raises: HTTPError, URLError
NotFound == <<"HTTP Error 404: Not Found">>
TimedOut == <<"<urlopen error timed out>">>

\* what the user can type into the URL field: the index page, the index
\* page with a fragment, a page of another site
UrlChoices ==
    {AbsLink(WorkName),
     <<Root, "/wiki/", WorkName, "#", "Contents">>,
     <<"https://www.gutenberg.org", "/files/", "11-h.htm">>}

\* the window in front of a site: the plain index URL for every site, the
\* other URLs for the sites without a first volume
Setups ==
    {r \in [site : Sites, url : UrlChoices] :
        r.url = AbsLink(WorkName) \/ (r.site.n1 = 0 /\ r.site.deco = <<>>)}

(***************************************************************************)
(* The state machines                                                      *)
(***************************************************************************)
NoElement == Element("none", "", <<>>)

RepairIdle == rs = <<>> /\ r1 = <<>> /\ r2 = <<>> /\ rpc = "off"

\* lines 547-551: the three check boxes start checked
DefaultOptions ==
    [keep_br_as_newline |-> TRUE, preserve_preformatted |-> TRUE, preserve_poetry |-> TRUE]

ExtractIdle ==
    /\ blocks = <<>>
    /\ ntop = 0
    /\ lastEl = NoElement
    /\ base = 0
    /\ out = <<>>
    /\ xpc = "off"

CleanIdle == raw = <<>> /\ aggr = FALSE /\ cleanedOut = <<>> /\ cpc = "off"

NoRun == [text |-> <<>>, preview |-> <<>>]

CrawlIdle ==
    /\ kpc = "idle"
    /\ first_level = <<>>
    /\ fi = 0
    /\ sublinks = <<>>
    /\ si = 0
    /\ seen = {}
    /\ chapters = <<>>

WindowIdle ==
    /\ url_edit = <<>>
    /\ _last_text = <<>>
    /\ preview = <<>>
    /\ status = <<>>
    /\ held = NoRun
    /\ result = "none"
    /\ runs = 0

CrawlerIdle ==
    /\ site = [index |-> <<>>, deco |-> <<>>, n1 |-> 0, v2 |-> <<>>, blank |-> ""]
    /\ busy = FALSE
    /\ save_enabled = FALSE
    /\ CrawlIdle
    /\ fetched = <<>>
    /\ failedUrl = <<>>
    /\ pending_close = FALSE

KdpIdle ==
    /\ _last_structure = <<>>
    /\ structure_info = <<>>
    /\ chapters_list = <<>>
    /\ saved = <<>>
    /\ btn_process = FALSE
    /\ btn_copy = FALSE
    /\ wpc = "none"
    /\ aggressive_check = FALSE
    /\ wraw = <<>>
    /\ signals = <<>>
    /\ cleared = FALSE

LinksIdle == page_hrefs = <<>> /\ page_url = <<>> /\ found_links = <<>> /\ lpc = "off"

NoStructure == [title |-> <<>>, author |-> <<>>, translator |-> <<>>, chapters |-> <<>>]

DetectIdle == dlines = <<>> /\ dk = 0 /\ dstructure = NoStructure /\ dpc = "off"

IdleExcept(c) ==
    /\ IF c = "repair" THEN TRUE ELSE RepairIdle
    /\ IF c = "extract" THEN TRUE ELSE ExtractIdle
    /\ IF c = "extract" THEN TRUE ELSE opt = DefaultOptions
    /\ IF c = "clean" THEN TRUE ELSE CleanIdle
    /\ IF c \in {"scraper", "kdp"} THEN TRUE ELSE WindowIdle
    /\ IF c = "scraper" THEN TRUE ELSE CrawlerIdle
    /\ IF c = "kdp" THEN TRUE ELSE KdpIdle
    /\ IF c = "links" THEN TRUE ELSE LinksIdle
    /\ IF c = "detect" THEN TRUE ELSE DetectIdle

\* ---- repair_mojibake applied once and twice ----
\* The code points the arguments are drawn from: A, backslash, x, A-tilde,
\* A-circumflex, the bytes 0x83 and 0xA9 of a doubly encoded e-acute, euro.
RepairAlphabet == {65, Backslash, LetterX, 195, 194, 131, 169, 8364}

RepairInputs == SeqsUpTo(RepairAlphabet, MaxStrLen)

InitRepair ==
    /\ comp = "repair"
    /\ rs \in RepairInputs
    /\ r1 = <<>>
    /\ r2 = <<>>
    /\ rpc = "in"
    /\ IdleExcept("repair")

\* the caller applies repair_mojibake to s
RepairOnce ==
    /\ comp = "repair"
    /\ rpc = "in"
    /\ r1' = repair_mojibake(rs)
    /\ rpc' = "once"
    /\ UNCHANGED <<rs, r2>>
    /\ UNCHANGED notRepair

\* ... and to the result again
RepairTwice ==
    /\ comp = "repair"
    /\ rpc = "once"
    /\ r2' = repair_mojibake(r1)
    /\ rpc' = "twice"
    /\ UNCHANGED <<rs, r1>>
    /\ UNCHANGED notRepair

NextRepair == RepairOnce \/ RepairTwice

SpecRepair == InitRepair /\ [][NextRepair]_vars

\* C9: repair_mojibake is idempotent: repairing the repaired string again
\* gives the repaired string, also for doubly mis-decoded strings.
C9_RepairIdempotent == rpc = "twice" => r2 = r1

\* C17: repair_mojibake returns (it does not raise: a failure of the
\* encoding or of the decoding ends in a returned string) either its
\* argument unchanged or the UTF-8 decoding of the argument's Latin-1 bytes;
\* the argument unchanged whenever it holds no tell-tale sequence and
\* whenever the encoding or the decoding fails.
C17_UnchangedOrRedecoded ==
    rpc \in {"once", "twice"} =>
        /\ \/ r1 = rs
           \/ Latin1Encodable(rs) /\ Utf8Decode(rs).ok /\ r1 = Utf8Decode(rs).s
        /\ ~HasMojibakeHint(rs) => r1 = rs
        /\ ~Latin1Encodable(rs) => r1 = rs
        /\ (Latin1Encodable(rs) /\ ~Utf8Decode(rs).ok) => r1 = rs

\* a tell-tale character followed by bytes that are not UTF-8
C17_Witness ==
    /\ rpc = "once"
    /\ HasMojibakeHint(rs)
    /\ Latin1Encodable(rs)
    /\ ~Utf8Decode(rs).ok
    /\ Len(rs) >= 2
    /\ r1 = rs

\* ---- extract_clean_text: the walk over the container, then the stitching ----
InitExtract ==
    /\ comp = "extract"
    /\ opt \in ExtractOptions
    /\ blocks = <<>>
    /\ ntop = 0
    /\ lastEl = NoElement
    /\ base = 0
    /\ out = <<>>
    /\ xpc = "walk"
    /\ IdleExcept("extract")

\* the loop of line 261 reaches the next top-level element of the container
\* and handles it and the block elements inside it
WalkElement ==
    /\ comp = "extract"
    /\ xpc = "walk"
    /\ ntop < MaxTop
    /\ \E el \in TopElements :
          /\ blocks' = blocks \o Walk(Element("body", "", <<el>>), opt)
          /\ lastEl' = el
    /\ base' = Len(blocks)
    /\ ntop' = ntop + 1
    /\ UNCHANGED <<opt, out, xpc>>
    /\ UNCHANGED notExtract

\* lines 265-272
ReturnText ==
    /\ comp = "extract"
    /\ xpc = "walk"
    /\ out' = Stitch(BlockTexts(blocks))
    /\ xpc' = "done"
    /\ UNCHANGED <<opt, blocks, ntop, lastEl, base>>
    /\ UNCHANGED notExtract

NextExtract == WalkElement \/ ReturnText

SpecExtract == InitExtract /\ [][NextExtract]_vars

\* ---- BookCleaner.clean_text ----
InitClean ==
    /\ comp = "clean"
    /\ raw \in RawInputs
    /\ aggr \in BOOLEAN
    /\ cleanedOut = <<>>
    /\ cpc = "raw"
    /\ IdleExcept("clean")

\* ProcessWorker.run, line 295: cleaned = BookCleaner.clean_text(raw, self.aggressive)
CleanText ==
    /\ comp = "clean"
    /\ cpc = "raw"
    /\ cleanedOut' = clean_text(raw, aggr)
    /\ cpc' = "cleaned"
    /\ UNCHANGED <<raw, aggr>>
    /\ UNCHANGED notClean

NextClean == CleanText

SpecClean == InitClean /\ [][NextClean]_vars

\* ---- kdpsimplescraper.MainWindow: the download handlers and the crawl ----
\* lines 479-481, 566: the window after construction, in front of a site
InitScraper ==
    /\ comp = "scraper"
    /\ \E setup \in Setups : site = setup.site /\ url_edit = setup.url
    /\ _last_text = <<>>
    /\ preview = <<>>
    /\ status = <<"Listo.">>
    /\ busy = FALSE
    /\ save_enabled = FALSE
    /\ CrawlIdle
    /\ fetched = <<>>
    /\ failedUrl = <<>>
    /\ pending_close = FALSE
    /\ held = NoRun
    /\ result = "none"
    /\ runs = 0
    /\ IdleExcept("scraper")

\* the locals of _collect_wikisource_chapters are gone
LeaveCrawl ==
    /\ kpc' = "idle"
    /\ first_level' = <<>>
    /\ fi' = 0
    /\ sublinks' = <<>>
    /\ si' = 0
    /\ seen' = {}

\* fetch_url_bytes raised e for url; lines 720-722 of _download_wikisource_work
AbortCrawl(url, e) ==
    /\ LeaveCrawl
    /\ chapters' = <<>>
    /\ failedUrl' = url
    /\ busy' = FALSE
    /\ save_enabled' = (_last_text # <<>>)
    /\ status' = <<"Fallo descargando indice: ">> \o e
    /\ result' = "failed"
    /\ UNCHANGED <<_last_text, preview>>

\* mutant: an empty chapter list clears the text held
FinishCrawl_clears(returned) ==
    /\ LeaveCrawl
    /\ chapters' = returned
    /\ busy' = FALSE
    /\ _last_text' = IF returned = <<>> THEN <<>> ELSE CombineSections(returned)
    /\ preview' = _last_text'
    /\ status' = IF returned = <<>> THEN <<"No se encontraron capitulos en Wikisource.">>
                 ELSE <<"Wikisource completo.">>
    /\ save_enabled' = (returned # <<>>)
    /\ result' = IF returned = <<>> THEN "nothing" ELSE "crawled"

\* lines 724-736 of _download_wikisource_work, for the list the crawl returned
FinishCrawl(returned) ==
    /\ LeaveCrawl
    /\ chapters' = returned
    /\ busy' = FALSE
    /\ IF returned = <<>>
       THEN /\ status' = <<"No se encontraron capitulos en Wikisource.">>
            /\ save_enabled' = (_last_text # <<>>)
            /\ result' = "nothing"
            /\ UNCHANGED <<_last_text, preview>>
       ELSE /\ _last_text' = CombineSections(returned)
            /\ preview' = _last_text'
            /\ status' = <<"Wikisource completo.">>
            /\ save_enabled' = TRUE
            /\ result' = "crawled"

\* the outcome of one call of fetch_url_bytes(url): the page, or the text of
\* the exception raised
FetchOutcomes(url) ==
    IF Served(url)
    THEN {[ok |-> TRUE, html |-> PageOf(site, PageKey(url)[3]), e |-> <<>>],
          [ok |-> FALSE, html |-> PageOf(site, ""), e |-> TimedOut]}
    ELSE {[ok |-> FALSE, html |-> PageOf(site, ""), e |-> NotFound]}

Fetch(url, link, role, parent) ==
    fetched' = Append(fetched, [url |-> url, link |-> link, role |-> role, parent |-> parent])

\* MainWindow.on_download_convert, lines 677-701
on_download_convert ==
    /\ comp = "scraper"
    /\ kpc = "idle"
    /\ ~busy
    /\ ~pending_close
    /\ runs < MaxRuns
    /\ runs' = runs + 1
    /\ held' = [text |-> _last_text, preview |-> preview]
    /\ \E r \in FetchOutcomes(url_edit) :
          IF r.ok
          THEN /\ _last_text' = extract_clean_text(Element("body", "", <<r.html.content>>), opt)
               /\ preview' = _last_text'
               /\ status' = <<"Listo.">>
               /\ save_enabled' = TRUE
               /\ result' = "converted"
               /\ failedUrl' = <<>>
          ELSE /\ status' = <<"Fallo descargando: ">> \o r.e
               /\ save_enabled' = (_last_text # <<>>)
               /\ result' = "failed"
               /\ failedUrl' = url_edit
               /\ UNCHANGED <<_last_text, preview>>
    /\ fetched' = <<[url |-> url_edit, link |-> url_edit, role |-> "single", parent |-> <<>>]>>
    /\ UNCHANGED <<site, url_edit, busy, kpc, first_level, fi, sublinks, si, seen, chapters,
                   pending_close>>
    /\ UNCHANGED notScraper

\* what the path of file_edit names when on_convert_file runs: nothing (the
\* field is empty), no file, a directory or a file that cannot be read, an
\* HTML file
LocalFiles ==
    {[kind |-> "none", content |-> NoElement],
     [kind |-> "missing", content |-> NoElement],
     [kind |-> "unreadable", content |-> NoElement],
     [kind |-> "html", content |-> ParagraphScenario],
     [kind |-> "html", content |-> PoetryScenario]}

\* MainWindow.on_convert_file, lines 654-675.  p.read_bytes() of line 668 is
\* in no try block: when it raises, the handler ends there, after
\* _set_busy(True, ...) of line 665.
on_convert_file ==
    /\ comp = "scraper"
    /\ kpc = "idle"
    /\ ~busy
    /\ ~pending_close
    /\ runs < MaxRuns
    /\ runs' = runs + 1
    /\ held' = [text |-> _last_text, preview |-> preview]
    /\ \E f \in LocalFiles :
          CASE f.kind = "none" ->
                 /\ status' = <<"No hay archivo local seleccionado.">>
                 /\ result' = "rejected"
                 /\ UNCHANGED <<_last_text, preview, busy, save_enabled>>
            [] f.kind = "missing" ->
                 /\ status' = <<"Ese archivo no existe.">>
                 /\ result' = "rejected"
                 /\ UNCHANGED <<_last_text, preview, busy, save_enabled>>
            [] f.kind = "unreadable" ->
                 /\ status' = <<"Leyendo archivo...">>
                 /\ busy' = TRUE
                 /\ save_enabled' = FALSE
                 /\ result' = "raised"
                 /\ UNCHANGED <<_last_text, preview>>
            [] f.kind = "html" ->
                 /\ _last_text' = extract_clean_text(Element("body", "", <<f.content>>), opt)
                 /\ preview' = _last_text'
                 /\ status' = <<"Convertido desde archivo.">>
                 /\ save_enabled' = TRUE
                 /\ result' = "converted"
                 /\ UNCHANGED busy
    /\ fetched' = <<>>
    /\ failedUrl' = <<>>
    /\ UNCHANGED <<site, url_edit, kpc, first_level, fi, sublinks, si, seen, chapters,
                   pending_close>>
    /\ UNCHANGED notScraper

\* MainWindow.on_download_wikisource, lines 703-716: up to the first fetch
on_download_wikisource ==
    /\ comp = "scraper"
    /\ kpc = "idle"
    /\ ~busy
    /\ ~pending_close
    /\ runs < MaxRuns
    /\ runs' = runs + 1
    /\ held' = [text |-> _last_text, preview |-> preview]
    /\ fetched' = <<>>
    /\ failedUrl' = <<>>
    /\ chapters' = <<>>
    /\ IF ~_is_wikisource_url(url_edit)
       THEN /\ status' = <<"Ese URL no parece de Wikisource.">>
            /\ result' = "rejected"
            /\ UNCHANGED <<busy, save_enabled, kpc>>
       ELSE /\ status' = <<"Descargando indice de Wikisource...">>
            /\ busy' = TRUE
            /\ save_enabled' = FALSE
            /\ kpc' = "index"
            /\ result' = "running"
    /\ UNCHANGED <<site, url_edit, _last_text, preview, first_level, fi, sublinks, si, seen,
                   pending_close>>
    /\ UNCHANGED notScraper

\* _collect_wikisource_chapters, lines 429-436
FetchIndex ==
    /\ comp = "scraper"
    /\ kpc = "index"
    /\ Fetch(url_edit, url_edit, "index", <<>>)
    /\ \E r \in FetchOutcomes(url_edit) :
          IF ~r.ok THEN AbortCrawl(url_edit, r.e)
          ELSE LET links == extract_wikisource_chapter_links(r.html, url_edit)
               IN  IF links = <<>>
                   THEN FinishCrawl(<<>>) /\ UNCHANGED failedUrl
                   ELSE /\ first_level' = links
                        /\ fi' = 1
                        /\ kpc' = "first"
                        /\ UNCHANGED <<sublinks, si, seen, chapters, failedUrl, _last_text,
                                       preview, status, busy, save_enabled, result>>
    /\ UNCHANGED <<site, url_edit, held, runs, pending_close>>
    /\ UNCHANGED notScraper

\* one turn of the loop of line 438
VisitFirstLevel ==
    /\ comp = "scraper"
    /\ kpc = "first"
    /\ fi <= Len(first_level)
    /\ LET link == first_level[fi]
           render_url == _ensure_action_render(link)
       IN  IF already_visited(link, seen)
           THEN /\ fi' = fi + 1
                /\ UNCHANGED <<kpc, first_level, sublinks, si, seen, chapters, fetched,
                               failedUrl, _last_text, preview, status, busy, save_enabled,
                               result>>
           ELSE /\ Fetch(render_url, link, "first", <<>>)
                /\ \E r \in FetchOutcomes(render_url) :
                      IF ~r.ok THEN AbortCrawl(render_url, r.e)
                      ELSE LET subs == extract_wikisource_chapter_links(r.html, link)
                           IN  /\ seen' = seen \cup {link}
                               /\ IF IsVolume(subs)
                                  THEN /\ sublinks' = subs
                                       /\ si' = 1
                                       /\ kpc' = "sub"
                                       /\ UNCHANGED <<fi, chapters>>
                                  ELSE /\ chapters' =
                                            append_chapter(chapters, link,
                                                _clean_wikisource_content(r.html, opt))
                                       /\ fi' = fi + 1
                                       /\ UNCHANGED <<sublinks, si, kpc>>
                               /\ UNCHANGED <<first_level, failedUrl, _last_text, preview,
                                              status, busy, save_enabled, result>>
    /\ UNCHANGED <<site, url_edit, held, runs, pending_close>>
    /\ UNCHANGED notScraper

\* one turn of the loop of line 447; after the last turn the outer loop goes on
VisitSublink ==
    /\ comp = "scraper"
    /\ kpc = "sub"
    /\ LET sublink == sublinks[si]
           sub_render == _ensure_action_render(sublink)
           parent == first_level[fi]
           last == si = Len(sublinks)
           advance == /\ si' = IF last THEN 0 ELSE si + 1
                      /\ sublinks' = IF last THEN <<>> ELSE sublinks
                      /\ fi' = IF last THEN fi + 1 ELSE fi
                      /\ kpc' = IF last THEN "first" ELSE "sub"
       IN  IF already_visited(sublink, seen)
           THEN /\ advance
                /\ UNCHANGED <<first_level, seen, chapters, fetched, failedUrl, _last_text,
                               preview, status, busy, save_enabled, result>>
           ELSE /\ Fetch(sub_render, sublink, "sub", parent)
                /\ \E r \in FetchOutcomes(sub_render) :
                      IF ~r.ok THEN AbortCrawl(sub_render, r.e)
                      ELSE /\ seen' = seen \cup {sublink}
                           /\ chapters' = append_chapter(chapters, sublink,
                                                _clean_wikisource_content(r.html, opt))
                           /\ advance
                           /\ UNCHANGED <<first_level, failedUrl, _last_text, preview,
                                          status, busy, save_enabled, result>>
    /\ UNCHANGED <<site, url_edit, held, runs, pending_close>>
    /\ UNCHANGED notScraper

\* line 461 and the rest of _download_wikisource_work
ReturnChapters ==
    /\ comp = "scraper"
    /\ kpc = "first"
    /\ fi > Len(first_level)
    /\ FinishCrawl(chapters)
    /\ UNCHANGED <<site, url_edit, fetched, failedUrl, held, runs, pending_close>>
    /\ UNCHANGED notScraper

\* The user asks for the crawl to stop by closing the window.  The crawl
\* runs inside the handler of the button (line 712), on the thread of the
\* event loop, and processEvents is called before it only (line 716): the
\* event waits until _download_wikisource_work has returned.
RequestClose ==
    /\ comp = "scraper"
    /\ kpc # "idle"
    /\ ~pending_close
    /\ pending_close' = TRUE
    /\ UNCHANGED <<site, busy, save_enabled, kpc, first_level, fi, sublinks, si, seen, chapters,
                   fetched, failedUrl>>
    /\ UNCHANGED windowVars
    /\ UNCHANGED notScraper

NextScraper ==
    \/ on_convert_file
    \/ on_download_convert
    \/ on_download_wikisource
    \/ FetchIndex
    \/ VisitFirstLevel
    \/ VisitSublink
    \/ ReturnChapters
    \/ RequestClose

SpecScraper == InitScraper /\ [][NextScraper]_vars

\* a crawl that has begun goes on: each fetch returns or raises within its
\* timeout (line 279), and the loops run on the thread of the handler
SpecScraperFair ==
    /\ SpecScraper
    /\ WF_vars(FetchIndex)
    /\ WF_vars(VisitFirstLevel)
    /\ WF_vars(VisitSublink)
    /\ WF_vars(ReturnChapters)

\* ---- extract_wikisource_chapter_links on a page and a base URL ----
\* the anchors a generated page is made of: a link to the page Work, with a
\* fragment, a relative and an absolute link to a chapter, the chapter with
\* a fragment, a page of a namespace that is kept, a page of another host
CoreHrefs ==
    {Link(WorkName),
     <<"/wiki/", WorkName, "#", "top">>,
     Link(ChapterPool[1]),
     <<"/wiki/", ChapterPool[1], "#", "s1">>,
     AbsLink(ChapterPool[1]),
     <<"/wiki/", "Author", ":", "Homer">>,
     <<"https://example.org", "/wiki/", WorkName>>}

\* the first anchor of a generated page: a page of each namespace of
\* WIKISOURCE_EXCLUDED_NAMESPACES, in upper and lower case, with a fragment,
\* as an absolute link; an empty href; a link outside /wiki/
FirstHrefs ==
    {<<"/wiki/", ns, ":", "Foo">> :
        ns \in {"Special", "Help", "File", "Category", "Talk", "Template", "Portal", "HELP",
                "category"}}
    \cup {<<"/wiki/", "Talk", ":", WorkName, "#", "top">>,
          <<Root, "/wiki/", "Category", ":", "Foo">>,
          <<>>,
          <<"/w/", "index.php">>}

PageHrefs ==
    SeqsUpTo(CoreHrefs, MaxAnchors)
    \cup {<<first>> \o rest : first \in FirstHrefs, rest \in SeqsUpTo(CoreHrefs, MaxAnchors)}

\* the base URLs: the page Work, the same with a fragment, the page Work of
\* another Wikisource
BaseUrls ==
    {AbsLink(WorkName),
     <<Root, "/wiki/", WorkName, "#", "Contents">>,
     <<"https://es.wikisource.org", "/wiki/", WorkName>>}

InitLinks ==
    /\ comp = "links"
    /\ page_hrefs \in PageHrefs
    /\ page_url \in BaseUrls
    /\ found_links = <<>>
    /\ lpc = "page"
    /\ IdleExcept("links")

\* lines 431 and 444: extract_wikisource_chapter_links(html_text, base_url)
ExtractLinks ==
    /\ comp = "links"
    /\ lpc = "page"
    /\ found_links' = extract_wikisource_chapter_links([anchors |-> page_hrefs], page_url)
    /\ lpc' = "extracted"
    /\ UNCHANGED <<page_hrefs, page_url>>
    /\ UNCHANGED notLinks

NextLinks == ExtractLinks

SpecLinks == InitLinks /\ [][NextLinks]_vars

\* ---- BookCleaner.detect_structure: the loop of line 166, then the loop of line 179 ----
DetectLinePool ==
    {<<>>,
     <<"abcdefghij">>,
     <<"by", " ", "a">>,
     <<"By", " ", "b">>,
     <<"Translated">>,
     <<"Translated", " ", "by", " ", "a">>,
     <<" ", "Traduccion", " ">>,
     <<"CHAPTER", " ", "IV.", " ", "The", " ", "Escape">>,
     <<"4">>,
     <<"PART", " ", "die">>}

\* texts with front matter: 49 or 50 blank lines before the first line with
\* text, 49 blank lines between the title and the author line, a first line
\* of 200 characters
LongTexts ==
    {[k \in 1..n |-> <<>>] \o <<l>> : n \in {ScanLines - 1, ScanLines},
                                     l \in {<<"abcdefghij">>, <<"by", " ", "a">>}}
    \cup {<<(<<"abcdefghij">>)>> \o [k \in 1..(ScanLines - 1) |-> <<" ">>] \o <<(<<"by", " ", "a">>)>>,
          <<TenLetterWords(20, <<>>), (<<"by", " ", "a">>), (<<"abcdefghij">>)>>}

InitDetect ==
    /\ comp = "detect"
    /\ dlines \in (SeqsUpTo(DetectLinePool, MaxDetectLines) \ {<<>>}) \cup LongTexts
    /\ dk = 0
    /\ dstructure = NoStructure
    /\ dpc = "head"
    /\ IdleExcept("detect")

\* one turn of the loop of line 166
ScanHeadLine ==
    /\ comp = "detect"
    /\ dpc = "head"
    /\ dk < Len(dlines)
    /\ dk < ScanLines
    /\ dstructure' = HeadStep(Strip(dlines[dk + 1], Whitespace), dstructure)
    /\ dk' = dk + 1
    /\ UNCHANGED <<dlines, dpc>>
    /\ UNCHANGED notDetect

\* the loop of line 179 and the return
ScanChapterLines ==
    /\ comp = "detect"
    /\ dpc = "head"
    /\ dk >= Len(dlines) \/ dk >= ScanLines
    /\ dstructure' = [dstructure EXCEPT !.chapters = ScanChapters(dlines, 1)]
    /\ dpc' = "done"
    /\ UNCHANGED <<dlines, dk>>
    /\ UNCHANGED notDetect

NextDetect == ScanHeadLine \/ ScanChapterLines

SpecDetect == InitDetect /\ [][NextDetect]_vars

\* ---- kdp1.MainWindow and its ProcessWorker ----
\* the text BookFetcher.fetch_url and BookExtractor.extract_main_text give
\* the worker
KdpRaws ==
    {<<>>,
     <<"a", "\n", "4", "\n", "b">>,
     <<"abcdefghij", "\n", "by", " ", "a", "\n", "\n", "\n", "\n",
       "CHAPTER", " ", "IV.", " ", "The", " ", "Escape", "\n", "a", " ", "b">>}

KdpUrl == <<"https://www.gutenberg.org", "/files/", "11-h.htm">>

\* lines 696-703: the text of structure_info
StructureInfo(structure) ==
    IF structure.title = <<>> THEN <<>>
    ELSE <<"Titulo: ">> \o structure.title \o <<"\n">>
         \o (IF structure.author # <<>> THEN <<"Autor: ">> \o structure.author \o <<"\n">>
             ELSE <<>>)
         \o (IF structure.translator # <<>> THEN structure.translator \o <<"\n">> ELSE <<>>)

\* lines 466-469: the window after construction
InitKdp ==
    /\ comp = "kdp"
    /\ url_edit = <<>>
    /\ _last_text = <<>>
    /\ preview = <<>>
    /\ status = <<>>
    /\ held = [text |-> <<>>, preview |-> <<>>, structure |-> <<>>]
    /\ result = "none"
    /\ runs = 0
    /\ _last_structure = <<>>
    /\ structure_info = <<>>
    /\ chapters_list = <<>>
    /\ saved = <<>>
    /\ btn_process = TRUE
    /\ btn_copy = FALSE
    /\ wpc = "none"
    /\ aggressive_check = FALSE
    /\ wraw = <<>>
    /\ signals = <<>>
    /\ cleared = FALSE
    /\ IdleExcept("kdp")

\* MainWindow.on_process, lines 660-685, with the URL the user has typed
on_process ==
    /\ comp = "kdp"
    /\ btn_process
    /\ runs < MaxRuns
    /\ runs' = runs + 1
    /\ url_edit' = KdpUrl
    /\ held' = [text |-> _last_text, preview |-> preview, structure |-> _last_structure]
    /\ cleared' = FALSE
    /\ preview' = <<>>
    /\ structure_info' = <<>>
    /\ chapters_list' = <<>>
    /\ _last_text' = <<>>
    /\ _last_structure' = <<>>
    /\ btn_process' = FALSE
    /\ \E a \in BOOLEAN : aggressive_check' = a
    /\ wpc' = "started"
    /\ result' = "running"
    /\ UNCHANGED <<status, saved, btn_copy, wraw, signals>>
    /\ UNCHANGED notKdp

\* ProcessWorker.run, lines 287-290: the download and the extraction
WorkerFetch ==
    /\ comp = "kdp"
    /\ wpc = "started"
    /\ \/ \E r \in KdpRaws :
             /\ wraw' = r
             /\ wpc' = "fetched"
             /\ signals' = signals \o <<[sig |-> "progress", text |-> <<"Descargando HTML...">>],
                                        [sig |-> "progress", text |-> <<"Extrayendo texto...">>]>>
       \/ \E e \in {NotFound, TimedOut} :
             /\ wpc' = "ended"
             /\ signals' = signals \o <<[sig |-> "progress", text |-> <<"Descargando HTML...">>],
                                        [sig |-> "error", text |-> e]>>
             /\ UNCHANGED wraw
    /\ UNCHANGED <<url_edit, _last_text, preview, status, held, result, runs, _last_structure,
                   structure_info, chapters_list, saved, btn_process, btn_copy, aggressive_check,
                   cleared>>
    /\ UNCHANGED notKdp

\* ProcessWorker.run, lines 292-301: the cleaning and the analysis
WorkerClean ==
    /\ comp = "kdp"
    /\ wpc = "fetched"
    /\ LET cleaned == clean_text(wraw, aggressive_check)
           structure == detect_structure(cleaned)
       IN  signals' = signals \o <<[sig |-> "progress", text |-> <<"Limpiando texto...">>],
                                    [sig |-> "progress", text |-> <<"Analizando estructura...">>],
                                    [sig |-> "progress", text |-> <<"Completado!">>],
                                    [sig |-> "finished", text |-> cleaned,
                                     structure |-> structure]>>
    /\ wpc' = "ended"
    /\ UNCHANGED <<url_edit, _last_text, preview, status, held, result, runs, _last_structure,
                   structure_info, chapters_list, saved, btn_process, btn_copy, aggressive_check,
                   wraw, cleared>>
    /\ UNCHANGED notKdp

\* MainWindow.on_progress, lines 687-689, for the signal at the head of the queue
on_progress ==
    /\ comp = "kdp"
    /\ signals # <<>>
    /\ Head(signals).sig = "progress"
    /\ status' = Head(signals).text
    /\ signals' = Tail(signals)
    /\ UNCHANGED <<url_edit, _last_text, preview, held, result, runs, _last_structure,
                   structure_info, chapters_list, saved, btn_process, btn_copy, wpc, aggressive_check,
                   wraw, cleared>>
    /\ UNCHANGED notKdp

\* MainWindow.on_finished, lines 691-719, with _auto_save
on_finished ==
    /\ comp = "kdp"
    /\ signals # <<>>
    /\ Head(signals).sig = "finished"
    /\ LET text == Head(signals).text
           structure == Head(signals).structure
       IN  /\ _last_text' = text
           /\ _last_structure' = <<structure>>
           /\ preview' = text
           /\ structure_info' = IF structure.title # <<>> THEN StructureInfo(structure)
                                ELSE structure_info
           /\ chapters_list' = chapters_list \o structure.chapters
           /\ saved' = IF text # <<>> THEN text ELSE saved
    /\ btn_copy' = TRUE
    /\ btn_process' = TRUE
    /\ result' = "finished"
    /\ signals' = Tail(signals)
    /\ UNCHANGED <<url_edit, status, held, runs, wpc, aggressive_check, wraw, cleared>>
    /\ UNCHANGED notKdp

\* MainWindow.on_error, lines 776-781
on_error ==
    /\ comp = "kdp"
    /\ signals # <<>>
    /\ Head(signals).sig = "error"
    /\ btn_process' = TRUE
    /\ status' = <<"Error: ">> \o Head(signals).text
    /\ preview' = <<"Error al procesar:", "\n", "\n">> \o Head(signals).text
    /\ result' = "failed"
    /\ signals' = Tail(signals)
    /\ UNCHANGED <<url_edit, _last_text, held, runs, _last_structure, structure_info,
                   chapters_list, saved, btn_copy, wpc, aggressive_check, wraw, cleared>>
    /\ UNCHANGED notKdp

\* MainWindow.on_clear, lines 829-839
on_clear ==
    /\ comp = "kdp"
    /\ cleared' = TRUE
    /\ preview' = <<>>
    /\ structure_info' = <<>>
    /\ chapters_list' = <<>>
    /\ url_edit' = <<>>
    /\ _last_text' = <<>>
    /\ _last_structure' = <<>>
    /\ btn_copy' = FALSE
    /\ UNCHANGED <<status, held, result, runs, saved, btn_process, wpc, aggressive_check, wraw,
                   signals>>
    /\ UNCHANGED notKdp

NextKdp ==
    \/ on_process
    \/ WorkerFetch
    \/ WorkerClean
    \/ on_progress
    \/ on_finished
    \/ on_error
    \/ on_clear

SpecKdp == InitKdp /\ [][NextKdp]_vars

HasRun(s, c, n) == \E k \in 1..(Len(s) - n + 1) : \A d \in 0..(n - 1) : s[k + d] = c

\* the blocks the element walked last appended
Emitted == SubSeq(blocks, base + 1, Len(blocks))

\* C6 (DOM path): the text extract_clean_text returns holds no run of 3 or
\* more newline characters
C6_NoTripleNewline == xpc = "done" => ~HasRun(out, "\n", 3)

\* C7: a Heading block and a Paragraph block (the newline-collapsing branch
\* of p/div) hold no newline: every whitespace token in them is one single
\* space between two words; the paragraph <p>The quick brown\nfox jumps.</p>
\* gives the one line "The quick brown fox jumps.".
SingleLine(t) ==
    /\ t # <<>>
    /\ \A k \in 1..Len(t) : t[k] \in Whitespace => t[k] = " "
    /\ t[1] # " "
    /\ t[Len(t)] # " "
    /\ \A k \in 1..(Len(t) - 1) : ~(t[k] = " " /\ t[k + 1] = " ")

C7_NoNewlineInParagraph ==
    /\ \A k \in 1..Len(blocks) :
          blocks[k].src \in {"heading", "para"} => SingleLine(blocks[k].text)
    /\ lastEl = ParagraphScenario =>
          BlockTexts(Emitted) = <<(<<"The", " ", "quick", " ", "brown", " ", "fox", " ", "jumps.">>)>>
    /\ lastEl = HeadedScenario =>
          BlockTexts(Emitted) =
             <<(<<"A", " ", "B">>),
               (<<"The", " ", "quick", " ", "brown", " ", "fox", " ", "jumps.">>)>>

C7_Witness ==
    /\ lastEl = HeadedScenario
    /\ Len(Emitted) = 2
    /\ Emitted[1].src = "heading"
    /\ Emitted[2].src = "para"

\* the text of a block element when each <br> in it gives one newline
BrText(el) ==
    Flatten([k \in 1..Len(el.kids) |->
                IF el.kids[k].tag = "br" THEN <<"\n">> ELSE el.kids[k].text])

\* the element is handled by the pre, blockquote or poetry branch and holds
\* text and <br> only
LineBlock(el) ==
    /\ \/ el.tag = "pre" /\ opt.preserve_preformatted
       \/ el.tag = "blockquote"
       \/ el.tag \in {"p", "div"} /\ opt.preserve_poetry /\ looks_like_poetry_block(el)
    /\ \A k \in 1..Len(el.kids) : el.kids[k].tag \in {"#text", "br"}

\* C10: in a poetry, preformatted or blockquote block each <br> yields one
\* newline of the extracted text: two <br> in a row leave one blank line
\* (the poetry scenario: one blank line between "Line two" and "Line three").
C10_BrYieldsOneNewline ==
    LineBlock(lastEl) => BlockTexts(Emitted) = add_block(PreserveLines(BrText(lastEl)), TRUE)

\* how many tokens of s are in S
CountOf(s, S) == Cardinality({k \in 1..Len(s) : s[k] \in S})

\* C11: no content is emitted twice: a word of a text node of the element
\* walked occurs in the blocks emitted for the element (its own and those of
\* the block elements inside it) at most as often as in the element's text
\* nodes, in its own or in upper case; and a div with a block-level element
\* as a direct child emits no block of its own.
C11_NoContentTwice ==
    lastEl # NoElement =>
        /\ \A w \in Range(Flatten(AllStrings(lastEl))) \ Whitespace :
              CountOf(Flatten(BlockTexts(Emitted)), {w, UpperWord(w)})
                 <= CountOf(Flatten(AllStrings(lastEl)), {w, UpperWord(w)})
        /\ (lastEl.tag = "div" /\ find_children(lastEl, BLOCK_TAGS) # <<>>) =>
              handle(lastEl, opt) = <<>>

\* the text of a list item without the lists nested inside it
OwnText(li) ==
    get_text(Element("li", "", SelectSeq(li.kids, LAMBDA n : n.tag \notin {"ul", "ol"})), " ", TRUE)

\* one line "- text" per direct child item whose own text is not empty
RECURSIVE ItemLines(_)
ItemLines(lis) ==
    IF lis = <<>> THEN <<>>
    ELSE (IF OwnText(Head(lis)) # <<>> THEN <<(<<"-", " ">> \o OwnText(Head(lis)))>> ELSE <<>>)
         \o ItemLines(Tail(lis))

\* C21: a ul/ol element emits one line per non-empty direct child list item,
\* each prefixed with "- "; the text of a list nested inside an item is not
\* part of the item's line, so a word of a nested list item is emitted at
\* most as often as it occurs in the text nodes; a list with no non-empty
\* item emits no block.
C21_ListItems ==
    (lastEl # NoElement /\ lastEl.tag \in {"ul", "ol"}) =>
        LET lines == ItemLines(find_children(lastEl, {"li"}))
            inner == Flatten([k \in 1..Len(find_all(lastEl, {"ul", "ol"})) |->
                                 Flatten(AllStrings(find_all(lastEl, {"ul", "ol"})[k]))])
        IN  /\ lines = <<>> => handle(lastEl, opt) = <<>>
            /\ lines # <<>> =>
                  /\ Emitted # <<>>
                  /\ Emitted[1] = [src |-> "list", text |-> Join(lines, <<"\n">>)]
            /\ \A w \in Range(inner) \ Whitespace :
                  CountOf(Flatten(BlockTexts(Emitted)), {w}) <= CountOf(inner, {w})

\* C22: the block of a heading h1-h5 is the heading's text with its
\* whitespace runs collapsed to single spaces, in upper case if and only if
\* the collapsed text has at most 80 characters; a heading without text
\* emits no block.
C22_HeadingCase ==
    (lastEl # NoElement /\ lastEl.tag \in HeadingTags) =>
        LET collapsed == normalize_spaces_singleline(Join(AllStrings(lastEl), <<" ">>))
        IN  BlockTexts(Emitted) =
               IF collapsed = <<>> THEN <<>>
               ELSE IF TextLen(collapsed) <= 80 THEN <<upper(collapsed)>>
               ELSE <<collapsed>>

\* C6 (fallback path): the text BookCleaner.clean_text returns holds no run
\* of 3 or more newline characters
C6_CleanNoTripleNewline == cpc = "cleaned" => ~HasRun(cleanedOut, "\n", 3)

C6_CleanWitness == cpc = "cleaned" /\ HasRun(raw, "\n", 4) /\ HasRun(cleanedOut, "\n", 2)

(***************************************************************************)
(* The crawl: claims C1 to C4                                              *)
(***************************************************************************)
\* C1: during one crawl no page is fetched more than once: the URLs passed
\* to fetch_url_bytes, compared after stripping the fragment and ignoring
\* the parameter action=render, are pairwise different, the index page's
\* included.
C1_NoPageFetchedTwice ==
    \A i, j \in 1..Len(fetched) :
        i # j => PageKey(fetched[i].url) # PageKey(fetched[j].url)

\* the crawl of the handler running last has returned its chapter list
CrawlReturned == kpc = "idle" /\ result \in {"crawled", "nothing"} /\ fetched # <<>>

\* the first-level links of the index page
IndexLinks == extract_wikisource_chapter_links(PageOf(site, WorkName), url_edit)

\* the page a link leads to
PageAt(link) == PageOf(site, PageKey(link)[3])

\* the qualifying sub-links of the page of a link
SubLinksOf(link) == extract_wikisource_chapter_links(PageAt(link), link)

BodyOf(link) == _clean_wikisource_content(PageAt(link), opt).body

ChapterUrls == [k \in 1..Len(chapters) |-> chapters[k].url]

TimesChapter(link) == Cardinality({k \in 1..Len(chapters) : chapters[k].url = link})

WasFetched(link) == \E k \in 1..Len(fetched) : fetched[k].link = link

FetchedAs(link, role) ==
    \E k \in 1..Len(fetched) : fetched[k].link = link /\ fetched[k].role = role

\* the links fetched as sub-links of the first-level link parent
FetchedUnder(parent) ==
    {fetched[k].link : k \in {j \in 1..Len(fetched) :
                                 fetched[j].role = "sub" /\ fetched[j].parent = parent}}

\* the index links to Volume_1 with 6 chapter sub-pages and to Volume_2 with
\* 1 sub-link
VolumeScenario ==
    /\ site = [index |-> <<Link(Volume1), Link(Volume2)>>, deco |-> <<>>, n1 |-> 6,
               v2 |-> <<Link(NotesName)>>, blank |-> ""]
    /\ url_edit = AbsLink(WorkName)

\* C2 as stated: for every first-level link, a page with 4 or more sub-links
\* is a volume (every sub-link is fetched and is a chapter, the page is
\* not), a page with fewer is exactly one chapter and none of its sub-links
\* is fetched; the scenario yields 7 chapters.
C2_EveryFirstLevelLink ==
    CrawlReturned =>
        /\ \A i \in 1..Len(IndexLinks) :
              LET link == IndexLinks[i]
                  subs == SubLinksOf(link)
              IN  IF Len(subs) >= 4
                  THEN /\ \A s \in Range(subs) : WasFetched(s) /\ TimesChapter(s) = 1
                       /\ TimesChapter(link) = 0
                  ELSE /\ TimesChapter(link) = 1
                       /\ \A s \in Range(subs) : ~WasFetched(s)
        /\ VolumeScenario => Len(chapters) = 7

\* C2 (amended): for every first-level link not visited before its turn, a
\* page with 4 or more sub-links is a volume (every sub-link is fetched in
\* the crawl, those not visited before are fetched on its turn and are a
\* chapter exactly when their cleaned body is not empty, the page is not a
\* chapter), a page with fewer is one chapter when its cleaned body is not
\* empty and no chapter otherwise, and no page is fetched as its sub-link;
\* a first-level link visited before its turn was fetched as a sub-link;
\* the scenario yields 7 chapters.
C2_UnvisitedFirstLevelLink ==
    CrawlReturned =>
        /\ \A i \in 1..Len(IndexLinks) :
              LET link == IndexLinks[i]
                  subs == SubLinksOf(link)
              IN  IF ~FetchedAs(link, "first") THEN FetchedAs(link, "sub")
                  ELSE IF Len(subs) >= 4
                  THEN /\ \A s \in Range(subs) : WasFetched(s)
                       /\ FetchedUnder(link) \subseteq Range(subs)
                       /\ \A s \in FetchedUnder(link) :
                             TimesChapter(s) = IF BodyOf(s) # <<>> THEN 1 ELSE 0
                       /\ TimesChapter(link) = 0
                  ELSE /\ TimesChapter(link) = IF BodyOf(link) # <<>> THEN 1 ELSE 0
                       /\ FetchedUnder(link) = {}
        /\ VolumeScenario => Len(chapters) = 7

C2_Witness ==
    /\ CrawlReturned
    /\ VolumeScenario
    /\ Len(chapters) = 7
    /\ FetchedUnder(AbsLink(Volume1)) = {AbsLink(ChapterPool[k]) : k \in 1..6}
    /\ chapters[7].url = AbsLink(Volume2)

\* the turn of the loop over first_level on which a chapter was fetched
Origin(url) ==
    CHOOSE i \in 1..Len(IndexLinks) :
        \E k \in 1..Len(fetched) :
            /\ fetched[k].link = url
            /\ \/ fetched[k].role = "first" /\ IndexLinks[i] = url
               \/ fetched[k].role = "sub" /\ IndexLinks[i] = fetched[k].parent

RECURSIVE IsSubsequence(_, _)
IsSubsequence(a, b) ==
    IF a = <<>> THEN TRUE
    ELSE IF b = <<>> THEN FALSE
    ELSE IF a[1] = b[1] THEN IsSubsequence(Tail(a), Tail(b))
    ELSE IsSubsequence(a, Tail(b))

\* the titles of the source URLs of a concatenated document, in order
SectionNames(text) ==
    SelectSeq([k \in 1..Len(text) |-> IF k > 1 /\ text[k - 1] = "/wiki/" THEN text[k] ELSE ""],
              LAMBDA t : t # "")

\* C3: the chapters are in discovery order: they follow the order of the
\* first-level links, the chapters of an expanded volume are contiguous at
\* the position of their parent and in the order of its sub-links, and the
\* sections of the concatenated document are in the order of the chapters.
C3_DiscoveryOrder ==
    result = "crawled" =>
        /\ \A a, b \in 1..Len(chapters) :
              a < b => Origin(chapters[a].url) <= Origin(chapters[b].url)
        /\ \A i \in 1..Len(IndexLinks) :
              LET under == SelectSeq(ChapterUrls, LAMBDA u : u \in FetchedUnder(IndexLinks[i]))
              IN  IsSubsequence(under, SubLinksOf(IndexLinks[i]))
        /\ SectionNames(_last_text) = [k \in 1..Len(chapters) |-> chapters[k].url[3]]

C3_Witness ==
    /\ result = "crawled"
    /\ site.index = <<Link(ChapterPool[1]), Link(Volume1), Link(Volume2)>>
    /\ site.n1 = 6
    /\ Len(chapters) >= 6
    /\ chapters[1].url = AbsLink(ChapterPool[1])
    /\ chapters[2].url = AbsLink(ChapterPool[2])
    /\ Origin(chapters[1].url) = 1
    /\ Origin(chapters[2].url) = 2

\* C12: the recursion is capped at one extra level: every fetch of a crawl
\* is the fetch of the index page (line 429), of a first-level link of the
\* index (line 443) or of a sub-link of a first-level page that was itself
\* fetched as a first-level link (line 452); a link fetched as a sub-link is
\* never expanded: it is not fetched at line 443, the only fetch whose page
\* goes to the link extraction after the index, and no fetch has it as its
\* parent.
C12_RecursionCapped ==
    \A k \in 1..Len(fetched) :
        LET f == fetched[k]
        IN  \/ f.role = "single"
            \/ f.role = "index" /\ k = 1 /\ f.link = url_edit
            \/ /\ f.role = "first"
               /\ f.link \in Range(IndexLinks)
               /\ ~FetchedAs(f.link, "sub")
            \/ /\ f.role = "sub"
               /\ f.parent \in Range(IndexLinks)
               /\ FetchedAs(f.parent, "first")
               /\ ~FetchedAs(f.parent, "sub")
               /\ f.link \in Range(SubLinksOf(f.parent))

\* a page with links of its own was fetched as a sub-link, it is a
\* first-level link too, and the crawl has returned
C12_Witness ==
    /\ CrawlReturned
    /\ \E k \in 1..Len(fetched) :
          /\ fetched[k].role = "sub"
          /\ fetched[k].link \in Range(IndexLinks)
          /\ SubLinksOf(fetched[k].link) # <<>>
    /\ Len(fetched) >= 6

\* the index page of the crawl running last was fetched and holds no
\* qualifying link
IndexWithoutLinks ==
    /\ fetched # <<>>
    /\ fetched[1].role = "index"
    /\ result # "failed"
    /\ IndexLinks = <<>>

\* C13: when the index page yields no qualifying link the crawl ends with
\* zero chapters and no page but the index is fetched; the window reports
\* that nothing was found (not a download failure), is no longer busy, and
\* the text it stores and the text it displays are those held before.
C13_NothingFound ==
    IndexWithoutLinks =>
        /\ Len(fetched) = 1
        /\ chapters = <<>>
        /\ kpc = "idle"
        /\ ~busy
        /\ result = "nothing"
        /\ status = <<"No se encontraron capitulos en Wikisource.">>
        /\ _last_text = held.text
        /\ preview = held.preview

\* an index page with anchors, none of them qualifying, after a run that
\* left a text
C13_Witness ==
    /\ IndexWithoutLinks
    /\ site.index # <<>>
    /\ result = "nothing"
    /\ held.text # <<>>
    /\ _last_text = held.text

\* C14: a user abort requested during a crawl is honoured between page
\* fetches: once it is requested no further page fetch is started (a fetch
\* is one step: the one in flight has ended when the next step is taken).
C14_NoFetchAfterAbort == [][pending_close => fetched' = fetched]_vars

\* C20: every chapter collected has a body that is not empty and holds
\* text, and no line of a body holds one of the noise phrases "retrieved
\* from", "public domain", "categories" in any case; a page whose body is
\* empty after the noise filtering (the site's blank page) is no chapter and
\* has no banner in the concatenated document.
C20_ChapterBodies ==
    /\ \A k \in 1..Len(chapters) :
          /\ chapters[k].body # <<>>
          /\ Range(chapters[k].body) \ Whitespace # {}
          /\ Range(chapters[k].body)
                \cap {"Retrieved from", "retrieved from", "PUBLIC DOMAIN", "public domain",
                      "Categories:", "categories"} = {}
          /\ chapters[k].url[3] # site.blank
    /\ result = "crawled" => site.blank \notin Range(SectionNames(_last_text))

\* the blank page was fetched, other pages are chapters, and their pages
\* hold a noise line
C20_Witness ==
    /\ result = "crawled"
    /\ site.blank # ""
    /\ \E k \in 1..Len(fetched) : PageKey(fetched[k].url)[3] = site.blank
    /\ Len(chapters) >= 2
    /\ "Retrieved from" \in Range(Flatten(AllStrings(Content(chapters[1].url[3]))))

\* s holds the tokens of part in a row
Contains(s, part) ==
    \E k \in 0..(Len(s) - Len(part)) : SubSeq(s, k + 1, k + Len(part)) = part

\* the crawl of the handler running last was aborted by a failing fetch
CrawlFailed ==
    /\ kpc = "idle"
    /\ result = "failed"
    /\ fetched # <<>>
    /\ fetched[Len(fetched)].role # "single"

\* C4: when a fetch fails during a crawl the crawl is aborted: no chapter
\* list is returned, the text stored and the text displayed are those held
\* before, and the failure reported identifies the URL that failed.
C4_FailureAbortsAndNamesUrl ==
    CrawlFailed =>
        /\ chapters = <<>>
        /\ _last_text = held.text
        /\ preview = held.preview
        /\ Contains(status, failedUrl)

\* the handler running last ended in a failure, a result was held when it
\* began, and the user has not cleared the window since
FailedAfterSuccess == kpc = "idle" /\ result = "failed" /\ held.text # <<>> /\ ~cleared

\* C5: a run that fails after a run that succeeded leaves the result held
\* unchanged: the stored text, the stored structure and the preview are
\* those of before the failed run was started (both applications).
C5_FailedRunKeepsResult ==
    FailedAfterSuccess =>
        /\ _last_text = held.text
        /\ preview = held.preview
        /\ comp = "kdp" => _last_structure = held.structure

(***************************************************************************)
(* extract_wikisource_chapter_links: claims C15 and C16                    *)
(***************************************************************************)
\* the spellings of the excluded namespaces
ExcludedSpellings ==
    {"Special", "special", "SPECIAL", "Help", "help", "HELP", "File", "file", "FILE",
     "Category", "category", "CATEGORY", "Talk", "talk", "TALK", "Template", "template",
     "TEMPLATE", "Portal", "portal", "PORTAL"}

\* the title of the URL has a ":" and the prefix before the first one is an
\* excluded namespace in some spelling
InExcludedNamespace(url) ==
    LET title == After(Before(url, "#"), "/wiki/")
    IN  Len(title) >= 2 /\ title[2] = ":" /\ title[1] \in ExcludedSpellings

\* C15: no link returned by extract_wikisource_chapter_links has a title
\* whose prefix before the first ":" is, in any case, one of special, help,
\* file, category, talk, template, portal (/wiki/Category:Foo is excluded).
C15_NoExcludedNamespace ==
    lpc = "extracted" => \A k \in 1..Len(found_links) : ~InExcludedNamespace(found_links[k])

\* a page with an anchor to /wiki/Category:Foo and a link that is returned
C15_Witness ==
    /\ lpc = "extracted"
    /\ Len(page_hrefs) = 2
    /\ page_hrefs[1] = <<"/wiki/", "Category", ":", "Foo">>
    /\ found_links = <<(<<page_url[1], "/wiki/", "Author", ":", "Homer">>)>>

\* the absolute URL without fragment an href stands for
Resolved(a) ==
    IF a # <<>> /\ a[1] = "/wiki/" THEN <<page_url[1]>> \o Before(a, "#") ELSE Before(a, "#")

\* the anchors of the page that stand for the URL
AnchorsOf(u) == {k \in 1..Len(page_hrefs) : Resolved(page_hrefs[k]) = u}

FirstAnchorOf(u) == CHOOSE k \in AnchorsOf(u) : \A j \in AnchorsOf(u) : k <= j

\* C16: the list returned holds only absolute URLs of the host of the base
\* URL, below /wiki/ and without fragment, each standing for an anchor of
\* the page; no URL twice (links that differ in the fragment only are one);
\* never the base URL itself (compared without fragment); in the order of
\* the first anchor of each.
C16_LinkList ==
    lpc = "extracted" =>
        /\ \A k \in 1..Len(found_links) :
              LET u == found_links[k]
              IN  /\ Len(u) >= 3
                  /\ u[1] = page_url[1]
                  /\ u[2] = "/wiki/"
                  /\ "#" \notin Range(u)
                  /\ AnchorsOf(u) # {}
                  /\ u # Before(page_url, "#")
        /\ \A i, j \in 1..Len(found_links) :
              i < j => /\ found_links[i] # found_links[j]
                       /\ FirstAnchorOf(found_links[i]) < FirstAnchorOf(found_links[j])

\* a link to the base page with a fragment, a chapter twice (with a
\* fragment first) and another page: two links are returned
C16_Witness ==
    /\ lpc = "extracted"
    /\ page_url = <<Root, "/wiki/", WorkName, "#", "Contents">>
    /\ \E k \in 1..Len(page_hrefs) : page_hrefs[k] = <<"/wiki/", WorkName, "#", "top">>
    /\ \E k \in 1..Len(page_hrefs) : page_hrefs[k] = <<"/wiki/", ChapterPool[1], "#", "s1">>
    /\ found_links = <<AbsLink(ChapterPool[1])>>

(***************************************************************************)
(* detect_structure: claims C18 and C19                                    *)
(***************************************************************************)
\* C18: the first matching line wins for title, author and translator: once
\* a line has set a field, no later line of the scanned window changes it.
C18_FirstMatchWins ==
    [][/\ dstructure.title # <<>> => dstructure'.title = dstructure.title
       /\ dstructure.author # <<>> => dstructure'.author = dstructure.author
       /\ dstructure.translator # <<>> => dstructure'.translator = dstructure.translator]_vars

\* C24: a scanned line other than the one taken as title that contains
\* "translat" or "traducc" sets the translator field when it is still unset,
\* also when the line contains "by " or "por "; and the author field is only
\* set by a line that comes after the title line.
C24_TranslatorAndAuthor ==
    [][(dk' = dk + 1) =>
          LET line == Strip(dlines[dk + 1], Whitespace)
              taken == dstructure.title = <<>> /\ dstructure'.title = line
          IN  /\ (/\ Range(line) \cap {"Translated", "Traduccion"} # {}
                  /\ ~taken
                  /\ dstructure.translator = <<>>)
                 => dstructure'.translator = line
              /\ dstructure'.author # dstructure.author => dstructure.title # <<>>]_vars

\* the first n elements of s
FirstOf(s, n) == SubSeq(s, 1, IF Len(s) < n THEN Len(s) ELSE n)

\* the lines of the text that are not empty once trimmed, trimmed
NonEmptyLines(lines) ==
    SelectSeq([k \in 1..Len(lines) |-> Strip(lines[k], Whitespace)], LAMBDA l : l # <<>>)

\* C23: title, author and translator are looked for in the first 50
\* non-empty lines of the text (blank lines do not count towards the 50),
\* and the title is the first non-empty line of more than 5 and fewer than
\* 200 characters.
C23_First50NonEmpty ==
    dpc = "done" =>
        LET window == FirstOf(NonEmptyLines(dlines), 50)
            titles == SelectSeq(window, LAMBDA l : TextLen(l) > 5 /\ TextLen(l) < 200)
        IN  /\ dstructure.title = IF titles = <<>> THEN <<>> ELSE titles[1]
            /\ dstructure.author # <<>> =>
                  \E k \in 1..Len(window) : window[k] = dstructure.author
            /\ (\E k \in 1..Len(window) :
                    HasByPhrase(window[k]) /\ window[k] # dstructure.title)
                  => dstructure.author # <<>>

(***************************************************************************)
(* The crawl: claim C28                                                    *)
(***************************************************************************)
\* C28: at every point of a crawl the source URLs of the chapters collected
\* so far are pairwise distinct and each of them is in the set seen; the
\* final chapter list holds no two chapters for the same URL, also when a
\* page is linked from several volume pages or both as a first-level link
\* and as a sub-link.
C28_ChapterUrlsDistinct ==
    /\ \A i, j \in 1..Len(chapters) : i # j => chapters[i].url # chapters[j].url
    /\ kpc # "idle" => \A k \in 1..Len(chapters) : chapters[k].url \in seen

\* a crawl has returned chapters, one of them for a page that is linked
\* from a volume page and is a first-level link or a link of another
\* volume page as well
C28_Witness ==
    /\ result = "crawled"
    /\ Len(chapters) >= 2
    /\ \E k \in 1..Len(chapters), p \in 1..Len(IndexLinks) :
          /\ IsVolume(SubLinksOf(IndexLinks[p]))
          /\ chapters[k].url \in Range(SubLinksOf(IndexLinks[p]))
          /\ \/ chapters[k].url \in Range(IndexLinks)
             \/ \E q \in 1..Len(IndexLinks) :
                   /\ q # p
                   /\ IsVolume(SubLinksOf(IndexLinks[q]))
                   /\ chapters[k].url \in Range(SubLinksOf(IndexLinks[q]))

(***************************************************************************)
(* kdpsimplescraper.MainWindow: claim C27                                  *)
(***************************************************************************)
\* C27: every operation that puts the window in the busy state (convert
\* file, download and convert, Wikisource download) eventually returns it to
\* the non-busy state, with the action buttons enabled again, whatever its
\* outcome.
C27_BusyEventuallyEnds == busy ~> ~busy

(***************************************************************************)
(* kdp1.MainWindow: claim C26                                              *)
(***************************************************************************)
\* C26: after on_clear the held result stays empty (_last_text and
\* _last_structure None, the preview empty, copy disabled) until the user
\* starts the next processing run, whatever signals of a running worker are
\* delivered in between.
C26_ClearedStaysEmpty ==
    cleared =>
        /\ _last_text = <<>>
        /\ _last_structure = <<>>
        /\ preview = <<>>
        /\ ~btn_copy

(***************************************************************************)
(* clean_text: claim C25                                                   *)
(***************************************************************************)
\* the characters separators are made of: *, -, _, =, bullets and dashes
DecorationChars == {"*", "-", "_", "=", "bullet", "middot", "emdash", "endash"}

\* the line holds decoration characters only, whitespace between them left
\* aside
PureDecoration(l) ==
    /\ l # <<>>
    /\ \A k \in 1..Len(l) : l[k] \in DecorationChars \cup {" ", "\t"}
    /\ l[1] \in DecorationChars

\* a line clean_text is to drop: a decorative separator of 3 characters or
\* more, a bare integer, a decoration of 1 or 2 characters
ToDrop(l) ==
    \/ PureDecoration(l) /\ CountOf(l, DecorationChars) >= 3
    \/ \A k \in 1..Len(l) : l[k] \in {"4", "12"}
    \/ PureDecoration(l) /\ Len(l) <= 2

\* C25: the text clean_text returns holds no line that is a decorative
\* separator of 3 characters or more, a bare integer or a decoration of 1 or
\* 2 characters; a dropped line leaves no blank line where the text had
\* none; without aggressive mode the lines with text of the result are the
\* other lines with text of the input, trimmed, in their order.
C25_DecorationDropped ==
    cpc = "cleaned" =>
        LET given == Split(ReplaceTok(ReplaceCRLF(raw, "\n"), "\r", "\n"), "\n")
            kept == NonEmptyLines(Split(cleanedOut, "\n"))
        IN  /\ \A k \in 1..Len(kept) : ~ToDrop(kept[k])
            /\ (\A k \in 1..Len(given) : Strip(given[k], Whitespace) # <<>>)
                  => ~HasRun(cleanedOut, "\n", 2)
            /\ ~aggr => kept = SelectSeq(NonEmptyLines(given), LAMBDA l : ~ToDrop(l))

\* the words that are a Roman numeral or an Arabic number, a full stop
\* after it included
NumeralWords == {"IV", "IV.", "4", "12"}

\* the trimmed line begins with a keyword, then whitespace, then a Roman
\* numeral or an Arabic number
IsChapterHeading(t) ==
    /\ Len(t) >= 3
    /\ t[1] \in {"CHAPTER", "chapter", "Chapter", "CAPITULO", "CAP.", "PARTE", "PART", "part"}
    /\ \E k \in 2..(Len(t) - 1) :
          /\ \A j \in 2..k : t[j] \in Whitespace
          /\ t[k + 1] \in NumeralWords

\* the marker of each chapter heading among the lines from line k on
RECURSIVE MarkersFrom(_, _)
MarkersFrom(lines, k) ==
    IF k > Len(lines) THEN <<>>
    ELSE (IF IsChapterHeading(Strip(lines[k], Whitespace))
          THEN <<[line |-> k - 1, title |-> Strip(lines[k], Whitespace)]>>
          ELSE <<>>)
         \o MarkersFrom(lines, k + 1)

\* C19: the chapter markers are exactly the lines of the text whose trimmed
\* form begins with a keyword followed by a Roman numeral or an Arabic
\* number (not a bare "4", not a keyword followed by an ordinary word), each
\* with its 0-based index and its trimmed text, in document order, a
\* repeated heading once per occurrence.
C19_ChapterMarkers == dpc = "done" => dstructure.chapters = MarkersFrom(dlines, 1)

(***************************************************************************)
(* Every producer of a cleaned text: claim C8                              *)
(***************************************************************************)
InitProducers == InitExtract \/ InitClean \/ InitScraper \/ InitKdp

NextProducers == NextExtract \/ NextClean \/ NextScraper \/ NextKdp

SpecProducers == InitProducers /\ [][NextProducers]_vars

\* t ends with a newline and the character before it is not whitespace
EndsWithOneNewline(t) ==
    /\ Len(t) >= 1
    /\ t[Len(t)] = "\n"
    /\ Len(t) >= 2 => t[Len(t) - 1] \notin Whitespace

\* C8: every cleaned text produced ends with exactly one newline and has no
\* whitespace-only line before it: the text extract_clean_text returns
\* (also the one the scraper window stores), the text clean_text returns
\* (also the one the worker hands to the window), the body of every
\* Wikisource chapter and the concatenated document; also for an input
\* with no content.
C8_EndsWithOneNewline ==
    /\ xpc = "done" => EndsWithOneNewline(out)
    /\ cpc = "cleaned" => EndsWithOneNewline(cleanedOut)
    /\ \A k \in 1..Len(chapters) : EndsWithOneNewline(chapters[k].body)
    /\ result \in {"crawled", "converted"} => EndsWithOneNewline(_last_text)
    /\ \A k \in 1..Len(signals) :
          signals[k].sig = "finished" => EndsWithOneNewline(signals[k].text)

C8_Witness ==
    /\ result = "crawled"
    /\ Len(chapters) >= 2
    /\ Len(chapters[1].body) >= 2
    /\ Len(_last_text) > Len(chapters[1].body) + Len(chapters[2].body)
    /\ EndsWithOneNewline(_last_text)

====
